---- MODULE Spec2Model ----
(***************************************************************************)
(* Provara core: the SovereignReducerV0 state reducer                      *)
(* (provara-core/src/reducer.rs), the causal chain verifier, the event     *)
(* signing envelope and the Merkle root (provara-core/src/lib.rs), the     *)
(* canonical JSON codec (jcs-rs/src/lib.rs) and the cross_impl command     *)
(* line (provara-core/src/bin/cross_impl.rs), as state machines.           *)
(*                                                                         *)
(* Conventions.                                                            *)
(*  - A serde_json Value is a tagged tuple: <<"null">>, <<"str", s>>,      *)
(*    <<"num", n>>, <<"obj", fields>>; a key that an object does not hold  *)
(*    is the empty tuple (Absent).                                         *)
(*  - Option<T> is None == <<>> or Some(x) == <<x>>.                       *)
(*  - f64 confidences are integers in hundredths (0.50 is 50).             *)
(*  - BTreeMap<String, V> is a function whose DOMAIN is the set of keys.   *)
(*  - hex(SHA-256(canonical bytes of v)) is the injective term             *)
(*    <<"sha256", v>>: equal hashes mean equal hashed values.              *)
(***************************************************************************)
EXTENDS Integers, Sequences, FiniteSets, TLC

VARIABLES
    reducer,      \* the SovereignReducerV0 instance under Spec
    call,         \* the last public call made on it: [op, events]
    fed,          \* number of events handed to it so far
    r1,           \* SpecPair, SpecTwin: first instance
    r2,           \* SpecPair, SpecTwin: second instance
    log,          \* SpecPair: the events given to r1; SpecTwin: to both
    pos2,         \* SpecPair: how many events of log r2 has consumed
    chain,        \* SpecChain: the input of verify_causal_chain
    chainResult,  \* SpecChain: what verify_causal_chain returns on chain
    signer,       \* SpecSign: the seed of the KeyPair that signed
    original,     \* SpecSign: the Event create_event_full returned
    presented,     \* SpecSign: the Event handed to verify_event_signature
    verification, \* SpecSign: what verify_event_signature returned for it
    jsonValue,    \* SpecCanon: the Value given to canonicalize
    jsonText,     \* SpecCanon: its canonical text, None before the call
    reparsed,     \* SpecCanon: canonical text of the parsed canonical text
    fileEntries,  \* SpecMerkle: the input of compute_merkle_root
    merkleRoot,   \* SpecMerkle: what compute_merkle_root returns on it
    argv,         \* SpecCli: the command line of cross_impl
    vaultFiles,   \* SpecCli: the files of the vault the command line names
    exitCode      \* SpecCli: the exit status of the process, None before

signVars == <<signer, original, presented, verification>>

canonVars == <<jsonValue, jsonText, reparsed>>

merkleVars == <<fileEntries, merkleRoot>>

cliVars == <<argv, vaultFiles, exitCode>>

vars ==
    <<reducer, call, fed, r1, r2, log, pos2, chain, chainResult,
      signVars, canonVars, merkleVars, cliVars>>

\* the value of a variable that belongs to another specification
NotInUse == <<>>

SignNotInUse ==
    signer = NotInUse /\ original = NotInUse /\ presented = NotInUse
    /\ verification = NotInUse

CanonNotInUse == jsonValue = NotInUse /\ jsonText = NotInUse /\ reparsed = NotInUse

MerkleNotInUse == fileEntries = NotInUse /\ merkleRoot = NotInUse

CliNotInUse == argv = NotInUse /\ vaultFiles = NotInUse /\ exitCode = NotInUse

(* ------------------------------ bounds -------------------------------- *)

MaxEvents == 3

MaxChain == 3

(* ------------------------- program constants -------------------------- *)

REDUCER_NAME == "SovereignReducerV0"

REDUCER_VERSION == "0.2.0"

DEFAULT_CONFLICT_CONFIDENCE_THRESHOLD == 50

DEFAULT_OBSERVATION_CONFIDENCE == 50

DEFAULT_ASSERTION_CONFIDENCE == 35

(* --------------------------- JSON and Option -------------------------- *)

Absent == <<>>

JNull == <<"null">>

JStr(s) == <<"str", s>>

JNum(n) == <<"num", n>>

JObj(o) == <<"obj", o>>

IsStr(v) == Len(v) = 2 /\ v[1] = "str"

IsNum(v) == Len(v) = 2 /\ v[1] = "num"

IsObj(v) == Len(v) = 2 /\ v[1] = "obj"

None == <<>>

Some(x) == <<x>>

\* .and_then(|v| v.as_str())
AsStr(v) == IF IsStr(v) THEN Some(v[2]) ELSE None

\* .and_then(|v| v.as_f64())
AsF64(v) == IF IsNum(v) THEN Some(v[2]) ELSE None

UnwrapOr(opt, d) == IF opt = None THEN d ELSE opt[1]

\* a.or_else(|| b) on the results of two Map::get calls
OrElse(a, b) == IF a # Absent THEN a ELSE b

\* json!(x) of an Option<&str>
OptStrJson(opt) == IF opt = None THEN JNull ELSE JStr(opt[1])

\* json!(x) of an Option<&Value>
OptValJson(v) == IF v = Absent THEN JNull ELSE v

Max(a, b) == IF a >= b THEN a ELSE b

EmptyMap == [x \in {} |-> {}]

MapInsert(m, k, v) == [x \in (DOMAIN m) \cup {k} |-> IF x = k THEN v ELSE m[x]]

MapRemove(m, k) == [x \in (DOMAIN m) \ {k} |-> m[x]]

\* map.entry(k).or_insert_with(Vec::new).push(v)
MapPush(m, k, v) == MapInsert(m, k, IF k \in DOMAIN m THEN Append(m[k], v) ELSE <<v>>)

\* jcs_rs::canonical_to_string on the scalar values the model feeds:
\* null, and strings none of whose characters needs an escape.
canonical_to_string(v) ==
    IF IsStr(v) THEN "\"" \o v[2] \o "\"" ELSE "null"

\* jcs_rs::canonical_hash_hex: injective on the hashed value.
canonical_hash_hex(v) == <<"sha256", v>>

\* str::to_lowercase on the namespace strings the model feeds.
to_lowercase(s) ==
    CASE s = "CANONICAL" -> "canonical"
      [] s = "Local" -> "local"
      [] OTHER -> s

(* ------------------------------ reducer ------------------------------- *)

\* a plausible slip: the stored state_hash is hashed along with the state
update_state_hash_self_referential(r) ==
    LET hashable ==
            [canonical |-> r.state.canonical,
             local |-> r.state.local,
             contested |-> r.state.contested,
             archived |-> r.state.archived,
             metadata |-> r.state.metadata]
    IN [r EXCEPT !.state.metadata.state_hash = Some(canonical_hash_hex(hashable))]

update_state_hash(r) ==
    LET hashable ==
            [canonical |-> r.state.canonical,
             local |-> r.state.local,
             contested |-> r.state.contested,
             archived |-> r.state.archived,
             metadata_partial |->
                 [last_event_id |-> r.state.metadata.last_event_id,
                  event_count |-> r.state.metadata.event_count,
                  current_epoch |-> r.state.metadata.current_epoch,
                  reducer |-> r.state.metadata.reducer]]
    IN [r EXCEPT !.state.metadata.state_hash = Some(canonical_hash_hex(hashable))]

new(conflict_confidence_threshold) ==
    LET threshold == UnwrapOr(conflict_confidence_threshold,
                              DEFAULT_CONFLICT_CONFIDENCE_THRESHOLD)
    IN update_state_hash(
        [state |->
            [canonical |-> EmptyMap,
             local |-> EmptyMap,
             contested |-> EmptyMap,
             archived |-> EmptyMap,
             metadata |->
                 [last_event_id |-> None,
                  event_count |-> 0,
                  state_hash |-> None,
                  current_epoch |-> None,
                  reducer |->
                      [name |-> REDUCER_NAME,
                       version |-> REDUCER_VERSION,
                       conflict_confidence_threshold |-> threshold]]],
         evidence |-> EmptyMap,
         ignored_types |-> {}])

normalize_namespace(raw) ==
    LET ns == to_lowercase(UnwrapOr(AsStr(raw), "local"))
    IN IF ns \in {"canonical", "local", "contested", "archived"} THEN ns ELSE "local"

EvidenceJson(ev) ==
    [event_id |-> ev.event_id,
     actor |-> ev.actor,
     namespace |-> ev.namespace,
     timestamp_utc |-> OptStrJson(ev.timestamp_utc),
     value |-> ev.value,
     confidence |-> ev.confidence]

\* a plausible slip: the local entry is left in place
mark_contested_keeps_local(r, key, reason) ==
    LET all_evidence == IF key \in DOMAIN r.evidence THEN r.evidence[key] ELSE <<>>
        val_keys == {canonical_to_string(all_evidence[i].value) : i \in DOMAIN all_evidence}
        by_value ==
            [vk \in val_keys |->
                LET same(ev) == canonical_to_string(ev.value) = vk
                    picked == SelectSeq(all_evidence, same)
                IN [i \in DOMAIN picked |-> EvidenceJson(picked[i])]]
        entry ==
            [status |-> "AWAITING_RESOLUTION",
             reason |-> reason,
             canonical_value |->
                 IF key \in DOMAIN r.state.canonical
                 THEN r.state.canonical[key].value
                 ELSE JNull,
             evidence_by_value |-> by_value,
             total_evidence_count |-> Len(all_evidence)]
    IN [r EXCEPT !.state.contested = MapInsert(@, key, entry)]

\* a plausible slip: the count is that of the distinct values
mark_contested_counts_values(r, key, reason) ==
    LET all_evidence == IF key \in DOMAIN r.evidence THEN r.evidence[key] ELSE <<>>
        val_keys == {canonical_to_string(all_evidence[i].value) : i \in DOMAIN all_evidence}
        by_value ==
            [vk \in val_keys |->
                LET same(ev) == canonical_to_string(ev.value) = vk
                    picked == SelectSeq(all_evidence, same)
                IN [i \in DOMAIN picked |-> EvidenceJson(picked[i])]]
        entry ==
            [status |-> "AWAITING_RESOLUTION",
             reason |-> reason,
             canonical_value |->
                 IF key \in DOMAIN r.state.canonical
                 THEN r.state.canonical[key].value
                 ELSE JNull,
             evidence_by_value |-> by_value,
             total_evidence_count |-> Cardinality(val_keys)]
    IN [r EXCEPT !.state.contested = MapInsert(@, key, entry),
                 !.state.local = MapRemove(@, key)]

mark_contested(r, key, reason) ==
    LET all_evidence == IF key \in DOMAIN r.evidence THEN r.evidence[key] ELSE <<>>
        val_keys == {canonical_to_string(all_evidence[i].value) : i \in DOMAIN all_evidence}
        by_value ==
            [vk \in val_keys |->
                LET same(ev) == canonical_to_string(ev.value) = vk
                    picked == SelectSeq(all_evidence, same)
                IN [i \in DOMAIN picked |-> EvidenceJson(picked[i])]]
        entry ==
            [status |-> "AWAITING_RESOLUTION",
             reason |-> reason,
             canonical_value |->
                 IF key \in DOMAIN r.state.canonical
                 THEN r.state.canonical[key].value
                 ELSE JNull,
             evidence_by_value |-> by_value,
             total_evidence_count |-> Len(all_evidence)]
    IN [r EXCEPT !.state.contested = MapInsert(@, key, entry),
                 !.state.local = MapRemove(@, key)]

\* a plausible slip: the two defaults taken the wrong way round
DefaultConfidence_swapped(is_assertion) ==
    IF is_assertion THEN DEFAULT_OBSERVATION_CONFIDENCE
    ELSE DEFAULT_ASSERTION_CONFIDENCE

DefaultConfidence(is_assertion) ==
    IF is_assertion THEN DEFAULT_ASSERTION_CONFIDENCE
    ELSE DEFAULT_OBSERVATION_CONFIDENCE

\* a plausible slip: the conflicts-with-canonical rule is left out
handle_observation_ignores_canonical(r, event_id, actor, namespace, payload, is_assertion) ==
    IF ~IsStr(payload.subject) THEN r
    ELSE IF ~IsStr(payload.predicate) THEN r
    ELSE
    LET subject == payload.subject[2]
        predicate == payload.predicate[2]
        key == subject \o ":" \o predicate
        value == OptValJson(payload.value)
        default_conf == DefaultConfidence(is_assertion)
        confidence == UnwrapOr(AsF64(payload.confidence), default_conf)
        ts == AsStr(OrElse(payload.timestamp, payload.timestamp_utc))
        ev == [event_id |-> event_id,
               actor |-> actor,
               namespace |-> namespace,
               timestamp_utc |-> ts,
               value |-> value,
               confidence |-> confidence]
        rE == [r EXCEPT !.evidence = MapPush(@, key, ev)]
        threshold == r.state.metadata.reducer.conflict_confidence_threshold
        local == r.state.local
        count_by_subject ==
            IF subject \in DOMAIN rE.evidence THEN Len(rE.evidence[subject]) ELSE 0
        key_again == subject \o ":" \o predicate
        count_by_key ==
            IF key_again \in DOMAIN rE.evidence THEN Len(rE.evidence[key_again]) ELSE 0
        inserted ==
            [value |-> value,
             confidence |-> confidence,
             provenance |-> event_id,
             actor |-> actor,
             timestamp |-> OptStrJson(ts),
             evidence_count |-> count_by_subject]
        corrected == [inserted EXCEPT !.evidence_count = count_by_key]
    IN  IF /\ key \in DOMAIN local
                /\ local[key].value # value
                /\ Max(local[key].confidence, confidence) >= threshold
        THEN mark_contested(rE, key, "conflicts_with_local")
        ELSE IF /\ key \in DOMAIN local
                /\ local[key].value = value
                /\ confidence <= local[key].confidence
        THEN rE
        ELSE [rE EXCEPT !.state.local = MapInsert(@, key, corrected)]

\* a plausible slip: a differing local value contests whatever the confidences
handle_observation_contests_any_difference(r, event_id, actor, namespace, payload, is_assertion) ==
    IF ~IsStr(payload.subject) THEN r
    ELSE IF ~IsStr(payload.predicate) THEN r
    ELSE
    LET subject == payload.subject[2]
        predicate == payload.predicate[2]
        key == subject \o ":" \o predicate
        value == OptValJson(payload.value)
        default_conf == DefaultConfidence(is_assertion)
        confidence == UnwrapOr(AsF64(payload.confidence), default_conf)
        ts == AsStr(OrElse(payload.timestamp, payload.timestamp_utc))
        ev == [event_id |-> event_id,
               actor |-> actor,
               namespace |-> namespace,
               timestamp_utc |-> ts,
               value |-> value,
               confidence |-> confidence]
        rE == [r EXCEPT !.evidence = MapPush(@, key, ev)]
        threshold == r.state.metadata.reducer.conflict_confidence_threshold
        canonical == r.state.canonical
        local == r.state.local
        count_by_subject ==
            IF subject \in DOMAIN rE.evidence THEN Len(rE.evidence[subject]) ELSE 0
        key_again == subject \o ":" \o predicate
        count_by_key ==
            IF key_again \in DOMAIN rE.evidence THEN Len(rE.evidence[key_again]) ELSE 0
        inserted ==
            [value |-> value,
             confidence |-> confidence,
             provenance |-> event_id,
             actor |-> actor,
             timestamp |-> OptStrJson(ts),
             evidence_count |-> count_by_subject]
        corrected == [inserted EXCEPT !.evidence_count = count_by_key]
    IN  IF /\ key \in DOMAIN canonical
           /\ canonical[key].value # value
           /\ confidence >= threshold
        THEN mark_contested(rE, key, "conflicts_with_canonical")
        ELSE IF /\ key \in DOMAIN local
                /\ local[key].value # value
        THEN mark_contested(rE, key, "conflicts_with_local")
        ELSE IF /\ key \in DOMAIN local
                /\ local[key].value = value
                /\ confidence <= local[key].confidence
        THEN rE
        ELSE [rE EXCEPT !.state.local = MapInsert(@, key, corrected)]

\* a plausible slip: an equal confidence replaces the entry
handle_observation_replaces_on_equal(r, event_id, actor, namespace, payload, is_assertion) ==
    IF ~IsStr(payload.subject) THEN r
    ELSE IF ~IsStr(payload.predicate) THEN r
    ELSE
    LET subject == payload.subject[2]
        predicate == payload.predicate[2]
        key == subject \o ":" \o predicate
        value == OptValJson(payload.value)
        default_conf == DefaultConfidence(is_assertion)
        confidence == UnwrapOr(AsF64(payload.confidence), default_conf)
        ts == AsStr(OrElse(payload.timestamp, payload.timestamp_utc))
        ev == [event_id |-> event_id,
               actor |-> actor,
               namespace |-> namespace,
               timestamp_utc |-> ts,
               value |-> value,
               confidence |-> confidence]
        rE == [r EXCEPT !.evidence = MapPush(@, key, ev)]
        threshold == r.state.metadata.reducer.conflict_confidence_threshold
        canonical == r.state.canonical
        local == r.state.local
        count_by_subject ==
            IF subject \in DOMAIN rE.evidence THEN Len(rE.evidence[subject]) ELSE 0
        key_again == subject \o ":" \o predicate
        count_by_key ==
            IF key_again \in DOMAIN rE.evidence THEN Len(rE.evidence[key_again]) ELSE 0
        inserted ==
            [value |-> value,
             confidence |-> confidence,
             provenance |-> event_id,
             actor |-> actor,
             timestamp |-> OptStrJson(ts),
             evidence_count |-> count_by_subject]
        corrected == [inserted EXCEPT !.evidence_count = count_by_key]
    IN  IF /\ key \in DOMAIN canonical
           /\ canonical[key].value # value
           /\ confidence >= threshold
        THEN mark_contested(rE, key, "conflicts_with_canonical")
        ELSE IF /\ key \in DOMAIN local
                /\ local[key].value # value
                /\ Max(local[key].confidence, confidence) >= threshold
        THEN mark_contested(rE, key, "conflicts_with_local")
        ELSE IF /\ key \in DOMAIN local
                /\ local[key].value = value
                /\ confidence < local[key].confidence
        THEN rE
        ELSE [rE EXCEPT !.state.local = MapInsert(@, key, corrected)]

\* a plausible slip: the count read under the subject alone is kept
handle_observation_counts_by_subject(r, event_id, actor, namespace, payload, is_assertion) ==
    IF ~IsStr(payload.subject) THEN r
    ELSE IF ~IsStr(payload.predicate) THEN r
    ELSE
    LET subject == payload.subject[2]
        predicate == payload.predicate[2]
        key == subject \o ":" \o predicate
        value == OptValJson(payload.value)
        default_conf == DefaultConfidence(is_assertion)
        confidence == UnwrapOr(AsF64(payload.confidence), default_conf)
        ts == AsStr(OrElse(payload.timestamp, payload.timestamp_utc))
        ev == [event_id |-> event_id,
               actor |-> actor,
               namespace |-> namespace,
               timestamp_utc |-> ts,
               value |-> value,
               confidence |-> confidence]
        rE == [r EXCEPT !.evidence = MapPush(@, key, ev)]
        threshold == r.state.metadata.reducer.conflict_confidence_threshold
        canonical == r.state.canonical
        local == r.state.local
        count_by_subject ==
            IF subject \in DOMAIN rE.evidence THEN Len(rE.evidence[subject]) ELSE 0
        key_again == subject \o ":" \o predicate
        count_by_key ==
            IF key_again \in DOMAIN rE.evidence THEN Len(rE.evidence[key_again]) ELSE 0
        inserted ==
            [value |-> value,
             confidence |-> confidence,
             provenance |-> event_id,
             actor |-> actor,
             timestamp |-> OptStrJson(ts),
             evidence_count |-> count_by_subject]
        corrected == [inserted EXCEPT !.evidence_count = count_by_key]
    IN  IF /\ key \in DOMAIN canonical
           /\ canonical[key].value # value
           /\ confidence >= threshold
        THEN mark_contested(rE, key, "conflicts_with_canonical")
        ELSE IF /\ key \in DOMAIN local
                /\ local[key].value # value
                /\ Max(local[key].confidence, confidence) >= threshold
        THEN mark_contested(rE, key, "conflicts_with_local")
        ELSE IF /\ key \in DOMAIN local
                /\ local[key].value = value
                /\ confidence <= local[key].confidence
        THEN rE
        ELSE [rE EXCEPT !.state.local = MapInsert(@, key, inserted)]

\* a plausible slip: a payload without a string subject is read as the empty subject
handle_observation_defaults_subject(r, event_id, actor, namespace, payload, is_assertion) ==
    IF ~IsStr(payload.predicate) THEN r
    ELSE
    LET subject == UnwrapOr(AsStr(payload.subject), "")
        predicate == payload.predicate[2]
        key == subject \o ":" \o predicate
        value == OptValJson(payload.value)
        default_conf == DefaultConfidence(is_assertion)
        confidence == UnwrapOr(AsF64(payload.confidence), default_conf)
        ts == AsStr(OrElse(payload.timestamp, payload.timestamp_utc))
        ev == [event_id |-> event_id,
               actor |-> actor,
               namespace |-> namespace,
               timestamp_utc |-> ts,
               value |-> value,
               confidence |-> confidence]
        rE == [r EXCEPT !.evidence = MapPush(@, key, ev)]
        threshold == r.state.metadata.reducer.conflict_confidence_threshold
        canonical == r.state.canonical
        local == r.state.local
        count_by_subject ==
            IF subject \in DOMAIN rE.evidence THEN Len(rE.evidence[subject]) ELSE 0
        key_again == subject \o ":" \o predicate
        count_by_key ==
            IF key_again \in DOMAIN rE.evidence THEN Len(rE.evidence[key_again]) ELSE 0
        inserted ==
            [value |-> value,
             confidence |-> confidence,
             provenance |-> event_id,
             actor |-> actor,
             timestamp |-> OptStrJson(ts),
             evidence_count |-> count_by_subject]
        corrected == [inserted EXCEPT !.evidence_count = count_by_key]
    IN  IF /\ key \in DOMAIN canonical
           /\ canonical[key].value # value
           /\ confidence >= threshold
        THEN mark_contested(rE, key, "conflicts_with_canonical")
        ELSE IF /\ key \in DOMAIN local
                /\ local[key].value # value
                /\ Max(local[key].confidence, confidence) >= threshold
        THEN mark_contested(rE, key, "conflicts_with_local")
        ELSE IF /\ key \in DOMAIN local
                /\ local[key].value = value
                /\ confidence <= local[key].confidence
        THEN rE
        ELSE [rE EXCEPT !.state.local = MapInsert(@, key, corrected)]

\* a plausible slip: an observation in namespace "canonical" is written to canonical
handle_observation_honours_namespace(r, event_id, actor, namespace, payload, is_assertion) ==
    IF ~IsStr(payload.subject) THEN r
    ELSE IF ~IsStr(payload.predicate) THEN r
    ELSE
    LET subject == payload.subject[2]
        predicate == payload.predicate[2]
        key == subject \o ":" \o predicate
        value == OptValJson(payload.value)
        default_conf == DefaultConfidence(is_assertion)
        confidence == UnwrapOr(AsF64(payload.confidence), default_conf)
        ts == AsStr(OrElse(payload.timestamp, payload.timestamp_utc))
        ev == [event_id |-> event_id,
               actor |-> actor,
               namespace |-> namespace,
               timestamp_utc |-> ts,
               value |-> value,
               confidence |-> confidence]
        rE == [r EXCEPT !.evidence = MapPush(@, key, ev)]
        threshold == r.state.metadata.reducer.conflict_confidence_threshold
        canonical == r.state.canonical
        local == r.state.local
        count_by_subject ==
            IF subject \in DOMAIN rE.evidence THEN Len(rE.evidence[subject]) ELSE 0
        key_again == subject \o ":" \o predicate
        count_by_key ==
            IF key_again \in DOMAIN rE.evidence THEN Len(rE.evidence[key_again]) ELSE 0
        inserted ==
            [value |-> value,
             confidence |-> confidence,
             provenance |-> event_id,
             actor |-> actor,
             timestamp |-> OptStrJson(ts),
             evidence_count |-> count_by_subject]
        corrected == [inserted EXCEPT !.evidence_count = count_by_key]
    IN  IF /\ key \in DOMAIN canonical
           /\ canonical[key].value # value
           /\ confidence >= threshold
        THEN mark_contested(rE, key, "conflicts_with_canonical")
        ELSE IF /\ key \in DOMAIN local
                /\ local[key].value # value
                /\ Max(local[key].confidence, confidence) >= threshold
        THEN mark_contested(rE, key, "conflicts_with_local")
        ELSE IF /\ key \in DOMAIN local
                /\ local[key].value = value
                /\ confidence <= local[key].confidence
        THEN rE
        ELSE IF namespace = "canonical"
        THEN [rE EXCEPT !.state.canonical =
                MapInsert(@, key, [value |-> value,
                                   attested_by |-> actor,
                                   provenance |-> event_id,
                                   attestation_event_id |-> event_id])]
        ELSE [rE EXCEPT !.state.local = MapInsert(@, key, corrected)]

handle_observation(r, event_id, actor, namespace, payload, is_assertion) ==
    IF ~IsStr(payload.subject) THEN r
    ELSE IF ~IsStr(payload.predicate) THEN r
    ELSE
    LET subject == payload.subject[2]
        predicate == payload.predicate[2]
        key == subject \o ":" \o predicate
        value == OptValJson(payload.value)
        default_conf == DefaultConfidence(is_assertion)
        confidence == UnwrapOr(AsF64(payload.confidence), default_conf)
        ts == AsStr(OrElse(payload.timestamp, payload.timestamp_utc))
        ev == [event_id |-> event_id,
               actor |-> actor,
               namespace |-> namespace,
               timestamp_utc |-> ts,
               value |-> value,
               confidence |-> confidence]
        rE == [r EXCEPT !.evidence = MapPush(@, key, ev)]
        threshold == r.state.metadata.reducer.conflict_confidence_threshold
        canonical == r.state.canonical
        local == r.state.local
        count_by_subject ==
            IF subject \in DOMAIN rE.evidence THEN Len(rE.evidence[subject]) ELSE 0
        key_again == subject \o ":" \o predicate
        count_by_key ==
            IF key_again \in DOMAIN rE.evidence THEN Len(rE.evidence[key_again]) ELSE 0
        inserted ==
            [value |-> value,
             confidence |-> confidence,
             provenance |-> event_id,
             actor |-> actor,
             timestamp |-> OptStrJson(ts),
             evidence_count |-> count_by_subject]
        corrected == [inserted EXCEPT !.evidence_count = count_by_key]
    IN  IF /\ key \in DOMAIN canonical
           /\ canonical[key].value # value
           /\ confidence >= threshold
        THEN mark_contested(rE, key, "conflicts_with_canonical")
        ELSE IF /\ key \in DOMAIN local
                /\ local[key].value # value
                /\ Max(local[key].confidence, confidence) >= threshold
        THEN mark_contested(rE, key, "conflicts_with_local")
        ELSE IF /\ key \in DOMAIN local
                /\ local[key].value = value
                /\ confidence <= local[key].confidence
        THEN rE
        ELSE [rE EXCEPT !.state.local = MapInsert(@, key, corrected)]

\* a plausible slip: the contested entry is not cleared
handle_attestation_keeps_contested(r, event_id, actor, payload) ==
    IF ~IsStr(payload.subject) THEN r
    ELSE IF ~IsStr(payload.predicate) THEN r
    ELSE
    LET key == payload.subject[2] \o ":" \o payload.predicate[2]
        value == OptValJson(payload.value)
        target_event_id == AsStr(payload.target_event_id)
        canonical == r.state.canonical
        archivedEntry ==
            [value |-> canonical[key].value,
             attested_by |-> canonical[key].attested_by,
             provenance |-> canonical[key].provenance,
             attestation_event_id |-> canonical[key].attestation_event_id,
             superseded_by |-> event_id]
        rA == IF key \in DOMAIN canonical
              THEN [r EXCEPT !.state.archived = MapPush(@, key, archivedEntry)]
              ELSE r
        entry ==
            [value |-> value,
             attested_by |-> UnwrapOr(AsStr(payload.actor_key_id), actor),
             provenance |-> UnwrapOr(target_event_id, event_id),
             attestation_event_id |-> event_id]
    IN [rA EXCEPT !.state.canonical = MapInsert(@, key, entry),
                  !.state.local = MapRemove(@, key)]

\* a plausible slip: superseded_by names the attestation that is superseded
handle_attestation_names_superseded_event(r, event_id, actor, payload) ==
    IF ~IsStr(payload.subject) THEN r
    ELSE IF ~IsStr(payload.predicate) THEN r
    ELSE
    LET key == payload.subject[2] \o ":" \o payload.predicate[2]
        value == OptValJson(payload.value)
        target_event_id == AsStr(payload.target_event_id)
        canonical == r.state.canonical
        archivedEntry ==
            [value |-> canonical[key].value,
             attested_by |-> canonical[key].attested_by,
             provenance |-> canonical[key].provenance,
             attestation_event_id |-> canonical[key].attestation_event_id,
             superseded_by |-> canonical[key].attestation_event_id]
        rA == IF key \in DOMAIN canonical
              THEN [r EXCEPT !.state.archived = MapPush(@, key, archivedEntry)]
              ELSE r
        entry ==
            [value |-> value,
             attested_by |-> UnwrapOr(AsStr(payload.actor_key_id), actor),
             provenance |-> UnwrapOr(target_event_id, event_id),
             attestation_event_id |-> event_id]
    IN [rA EXCEPT !.state.canonical = MapInsert(@, key, entry),
                  !.state.local = MapRemove(@, key),
                  !.state.contested = MapRemove(@, key)]

\* a plausible slip: the archive of the key keeps the latest entry only
handle_attestation_overwrites_archive(r, event_id, actor, payload) ==
    IF ~IsStr(payload.subject) THEN r
    ELSE IF ~IsStr(payload.predicate) THEN r
    ELSE
    LET key == payload.subject[2] \o ":" \o payload.predicate[2]
        value == OptValJson(payload.value)
        target_event_id == AsStr(payload.target_event_id)
        canonical == r.state.canonical
        archivedEntry ==
            [value |-> canonical[key].value,
             attested_by |-> canonical[key].attested_by,
             provenance |-> canonical[key].provenance,
             attestation_event_id |-> canonical[key].attestation_event_id,
             superseded_by |-> event_id]
        rA == IF key \in DOMAIN canonical
              THEN [r EXCEPT !.state.archived = MapInsert(@, key, <<archivedEntry>>)]
              ELSE r
        entry ==
            [value |-> value,
             attested_by |-> UnwrapOr(AsStr(payload.actor_key_id), actor),
             provenance |-> UnwrapOr(target_event_id, event_id),
             attestation_event_id |-> event_id]
    IN [rA EXCEPT !.state.canonical = MapInsert(@, key, entry),
                  !.state.local = MapRemove(@, key),
                  !.state.contested = MapRemove(@, key)]

handle_attestation(r, event_id, actor, payload) ==
    IF ~IsStr(payload.subject) THEN r
    ELSE IF ~IsStr(payload.predicate) THEN r
    ELSE
    LET key == payload.subject[2] \o ":" \o payload.predicate[2]
        value == OptValJson(payload.value)
        target_event_id == AsStr(payload.target_event_id)
        canonical == r.state.canonical
        archivedEntry ==
            [value |-> canonical[key].value,
             attested_by |-> canonical[key].attested_by,
             provenance |-> canonical[key].provenance,
             attestation_event_id |-> canonical[key].attestation_event_id,
             superseded_by |-> event_id]
        rA == IF key \in DOMAIN canonical
              THEN [r EXCEPT !.state.archived = MapPush(@, key, archivedEntry)]
              ELSE r
        entry ==
            [value |-> value,
             attested_by |-> UnwrapOr(AsStr(payload.actor_key_id), actor),
             provenance |-> UnwrapOr(target_event_id, event_id),
             attestation_event_id |-> event_id]
    IN [rA EXCEPT !.state.canonical = MapInsert(@, key, entry),
                  !.state.local = MapRemove(@, key),
                  !.state.contested = MapRemove(@, key)]

\* a plausible slip: the snapshot replaces the archive list of the key
\* instead of being pushed onto it
handle_retraction_overwrites_archive(r, event_id, actor, payload) ==
    IF ~IsStr(payload.subject) THEN r
    ELSE IF ~IsStr(payload.predicate) THEN r
    ELSE
    LET key == payload.subject[2] \o ":" \o payload.predicate[2]
        canonical == r.state.canonical
        archivedEntry ==
            [value |-> canonical[key].value,
             attested_by |-> canonical[key].attested_by,
             provenance |-> canonical[key].provenance,
             attestation_event_id |-> canonical[key].attestation_event_id,
             superseded_by |-> event_id,
             retracted |-> TRUE]
        rA == IF key \in DOMAIN canonical
              THEN [r EXCEPT !.state.archived = MapInsert(@, key, <<archivedEntry>>),
                             !.state.canonical = MapRemove(@, key)]
              ELSE r
    IN [rA EXCEPT !.state.local = MapRemove(@, key),
                  !.state.contested = MapRemove(@, key)]

\* a plausible slip: without a canonical entry the retraction returns at once
handle_retraction_returns_without_canonical(r, event_id, actor, payload) ==
    IF ~IsStr(payload.subject) THEN r
    ELSE IF ~IsStr(payload.predicate) THEN r
    ELSE
    LET key == payload.subject[2] \o ":" \o payload.predicate[2]
        canonical == r.state.canonical
        archivedEntry ==
            [value |-> canonical[key].value,
             attested_by |-> canonical[key].attested_by,
             provenance |-> canonical[key].provenance,
             attestation_event_id |-> canonical[key].attestation_event_id,
             superseded_by |-> event_id,
             retracted |-> TRUE]
        rA == IF key \in DOMAIN canonical
              THEN [r EXCEPT !.state.archived = MapPush(@, key, archivedEntry),
                             !.state.canonical = MapRemove(@, key)]
              ELSE r
    IN IF key \notin DOMAIN canonical THEN r
       ELSE [rA EXCEPT !.state.local = MapRemove(@, key),
                       !.state.contested = MapRemove(@, key)]

\* a plausible slip: the retraction leaves the contested entry in place
handle_retraction_keeps_contested(r, event_id, actor, payload) ==
    IF ~IsStr(payload.subject) THEN r
    ELSE IF ~IsStr(payload.predicate) THEN r
    ELSE
    LET key == payload.subject[2] \o ":" \o payload.predicate[2]
        canonical == r.state.canonical
        archivedEntry ==
            [value |-> canonical[key].value,
             attested_by |-> canonical[key].attested_by,
             provenance |-> canonical[key].provenance,
             attestation_event_id |-> canonical[key].attestation_event_id,
             superseded_by |-> event_id,
             retracted |-> TRUE]
        rA == IF key \in DOMAIN canonical
              THEN [r EXCEPT !.state.archived = MapPush(@, key, archivedEntry),
                             !.state.canonical = MapRemove(@, key)]
              ELSE r
    IN [rA EXCEPT !.state.local = MapRemove(@, key)]

\* a plausible slip: the retraction also discards the evidence of the key
handle_retraction_drops_evidence(r, event_id, actor, payload) ==
    IF ~IsStr(payload.subject) THEN r
    ELSE IF ~IsStr(payload.predicate) THEN r
    ELSE
    LET key == payload.subject[2] \o ":" \o payload.predicate[2]
        canonical == r.state.canonical
        archivedEntry ==
            [value |-> canonical[key].value,
             attested_by |-> canonical[key].attested_by,
             provenance |-> canonical[key].provenance,
             attestation_event_id |-> canonical[key].attestation_event_id,
             superseded_by |-> event_id,
             retracted |-> TRUE]
        rA == IF key \in DOMAIN canonical
              THEN [r EXCEPT !.state.archived = MapPush(@, key, archivedEntry),
                             !.state.canonical = MapRemove(@, key)]
              ELSE r
    IN [rA EXCEPT !.state.local = MapRemove(@, key),
                  !.state.contested = MapRemove(@, key),
                  !.evidence = MapRemove(@, key)]

handle_retraction(r, event_id, actor, payload) ==
    IF ~IsStr(payload.subject) THEN r
    ELSE IF ~IsStr(payload.predicate) THEN r
    ELSE
    LET key == payload.subject[2] \o ":" \o payload.predicate[2]
        canonical == r.state.canonical
        archivedEntry ==
            [value |-> canonical[key].value,
             attested_by |-> canonical[key].attested_by,
             provenance |-> canonical[key].provenance,
             attestation_event_id |-> canonical[key].attestation_event_id,
             superseded_by |-> event_id,
             retracted |-> TRUE]
        rA == IF key \in DOMAIN canonical
              THEN [r EXCEPT !.state.archived = MapPush(@, key, archivedEntry),
                             !.state.canonical = MapRemove(@, key)]
              ELSE r
    IN [rA EXCEPT !.state.local = MapRemove(@, key),
                  !.state.contested = MapRemove(@, key)]

\* a plausible slip: an epoch already set is kept
handle_reducer_epoch_first_wins(r, event_id, payload) ==
    IF r.state.metadata.current_epoch # None THEN r ELSE
    [r EXCEPT !.state.metadata.current_epoch =
        Some([epoch_id |-> OptValJson(payload.epoch_id),
              reducer_hash |-> OptValJson(payload.reducer_hash),
              effective_from_event_id |->
                  UnwrapOr(AsStr(payload.effective_from_event_id), event_id),
              ontology_versions |-> OptValJson(payload.ontology_versions)])]

handle_reducer_epoch(r, event_id, payload) ==
    [r EXCEPT !.state.metadata.current_epoch =
        Some([epoch_id |-> OptValJson(payload.epoch_id),
              reducer_hash |-> OptValJson(payload.reducer_hash),
              effective_from_event_id |->
                  UnwrapOr(AsStr(payload.effective_from_event_id), event_id),
              ontology_versions |-> OptValJson(payload.ontology_versions)])]

\* a plausible slip: an unknown type is skipped without being recorded
apply_event_internal_forgets_unknown_types(r, event) ==
    IF ~IsObj(event) THEN r
    ELSE
    LET obj == event[2]
        e_type == UnwrapOr(AsStr(obj.type), "")
        event_id == UnwrapOr(AsStr(OrElse(obj.event_id, obj.id)), "unknown_event")
        actor == UnwrapOr(AsStr(obj.actor), "unknown")
        namespace == normalize_namespace(obj.namespace)
        payload == IF IsObj(obj.payload) THEN Some(obj.payload[2]) ELSE None
        handled ==
            CASE e_type = "OBSERVATION" ->
                    IF payload # None
                    THEN handle_observation(r, event_id, actor, namespace, payload[1], FALSE)
                    ELSE r
              [] e_type = "ASSERTION" ->
                    IF payload # None
                    THEN handle_observation(r, event_id, actor, namespace, payload[1], TRUE)
                    ELSE r
              [] e_type = "ATTESTATION" ->
                    IF payload # None
                    THEN handle_attestation(r, event_id, actor, payload[1])
                    ELSE r
              [] e_type = "RETRACTION" ->
                    IF payload # None
                    THEN handle_retraction(r, event_id, actor, payload[1])
                    ELSE r
              [] e_type = "REDUCER_EPOCH" ->
                    IF payload # None
                    THEN handle_reducer_epoch(r, event_id, payload[1])
                    ELSE r
              [] OTHER ->
                    IF e_type # ""
                    THEN r
                    ELSE r
    IN [handled EXCEPT !.state.metadata.last_event_id = Some(event_id),
                       !.state.metadata.event_count = @ + 1]

apply_event_internal(r, event) ==
    IF ~IsObj(event) THEN r
    ELSE
    LET obj == event[2]
        e_type == UnwrapOr(AsStr(obj.type), "")
        event_id == UnwrapOr(AsStr(OrElse(obj.event_id, obj.id)), "unknown_event")
        actor == UnwrapOr(AsStr(obj.actor), "unknown")
        namespace == normalize_namespace(obj.namespace)
        payload == IF IsObj(obj.payload) THEN Some(obj.payload[2]) ELSE None
        handled ==
            CASE e_type = "OBSERVATION" ->
                    IF payload # None
                    THEN handle_observation(r, event_id, actor, namespace, payload[1], FALSE)
                    ELSE r
              [] e_type = "ASSERTION" ->
                    IF payload # None
                    THEN handle_observation(r, event_id, actor, namespace, payload[1], TRUE)
                    ELSE r
              [] e_type = "ATTESTATION" ->
                    IF payload # None
                    THEN handle_attestation(r, event_id, actor, payload[1])
                    ELSE r
              [] e_type = "RETRACTION" ->
                    IF payload # None
                    THEN handle_retraction(r, event_id, actor, payload[1])
                    ELSE r
              [] e_type = "REDUCER_EPOCH" ->
                    IF payload # None
                    THEN handle_reducer_epoch(r, event_id, payload[1])
                    ELSE r
              [] OTHER ->
                    IF e_type # ""
                    THEN [r EXCEPT !.ignored_types = @ \cup {e_type}]
                    ELSE r
    IN [handled EXCEPT !.state.metadata.last_event_id = Some(event_id),
                       !.state.metadata.event_count = @ + 1]

RECURSIVE ApplyAll(_, _)
\* the for loop of apply_events
ApplyAll(r, events) ==
    IF events = <<>> THEN r
    ELSE ApplyAll(apply_event_internal(r, Head(events)), Tail(events))

\* a plausible slip: the batch path forgets to refresh the hash
apply_events_stale_hash(r, events) == ApplyAll(r, events)

\* a plausible slip: the loop of the batch path stops one event early
apply_events_drops_last(r, events) == update_state_hash(ApplyAll(r, SubSeq(events, 1, Len(events) - 1)))

apply_events(r, events) == update_state_hash(ApplyAll(r, events))

apply_event(r, event) == update_state_hash(apply_event_internal(r, event))

(* ------------------------- the events fed ----------------------------- *)

\* event ids are content hashes: the n-th event fed carries the n-th id
EventIds == <<"evt_1", "evt_2", "evt_3", "evt_4", "evt_5", "evt_6">>

NoPayload ==
    [subject |-> Absent, predicate |-> Absent, value |-> Absent,
     confidence |-> Absent, timestamp |-> Absent, timestamp_utc |-> Absent,
     target_event_id |-> Absent, actor_key_id |-> Absent,
     epoch_id |-> Absent, reducer_hash |-> Absent,
     effective_from_event_id |-> Absent, ontology_versions |-> Absent]

NoFields ==
    [type |-> Absent, event_id |-> Absent, id |-> Absent, actor |-> Absent,
     namespace |-> Absent, payload |-> Absent]

\* payload {subject, predicate, value, confidence}
Fact(s, p, v, c) ==
    JObj([NoPayload EXCEPT !.subject = JStr(s), !.predicate = JStr(p),
                           !.value = v, !.confidence = c])

\* event {type, event_id, actor: "alice", payload}
Ev(type, id, payload) ==
    JObj([NoFields EXCEPT !.type = JStr(type), !.event_id = JStr(id),
                          !.actor = JStr("alice"), !.payload = payload])

\* The events the environment may feed as the event with id `id`: well-formed
\* knowledge events on the keys "a:c" and "a:b:c" (the latter from the pairs
\* (a:b, c) and (a, b:c)), epochs, unknown types and malformed shapes.
EventTemplates(id) ==
    << Ev("OBSERVATION", id, Fact("a", "c", JStr("open"), JNum(90))),
       Ev("OBSERVATION", id, Fact("a", "c", JStr("closed"), JNum(90))),
       Ev("OBSERVATION", id, Fact("a", "c", JStr("closed"), JNum(20))),
       JObj([NoFields EXCEPT
                !.type = JStr("OBSERVATION"), !.event_id = JStr(id),
                !.actor = JStr("bob"), !.namespace = JStr("CANONICAL"),
                !.payload = JObj([NoPayload EXCEPT !.subject = JStr("a"),
                                                   !.predicate = JStr("c"),
                                                   !.timestamp = JStr("t1")])]),
       Ev("OBSERVATION", id, Fact("a:b", "c", JStr("open"), JNum(90))),
       Ev("OBSERVATION", id, Fact("a", "b:c", JStr("closed"), JNum(90))),
       Ev("ASSERTION", id,
          JObj([NoPayload EXCEPT !.subject = JStr("a"), !.predicate = JStr("c"),
                                 !.value = JStr("open"),
                                 !.timestamp_utc = JStr("t2")])),
       Ev("ATTESTATION", id, Fact("a", "c", JStr("open"), Absent)),
       Ev("ATTESTATION", id,
          JObj([NoPayload EXCEPT !.subject = JStr("a"), !.predicate = JStr("c"),
                                 !.value = JStr("closed"),
                                 !.target_event_id = JStr("evt_0"),
                                 !.actor_key_id = JStr("bp1_k")])),
       Ev("ATTESTATION", id, Fact("a:b", "c", JStr("open"), Absent)),
       Ev("RETRACTION", id, Fact("a", "c", Absent, Absent)),
       Ev("REDUCER_EPOCH", id,
          JObj([NoPayload EXCEPT !.epoch_id = JStr("ep1"),
                                 !.reducer_hash = JStr("h1")])),
       Ev("REDUCER_EPOCH", id,
          JObj([NoPayload EXCEPT !.epoch_id = JStr("ep2"),
                                 !.effective_from_event_id = JStr("evt_0")])),
       Ev("CUSTOM", id, Fact("a", "c", JStr("open"), JNum(90))),
       JObj([NoFields EXCEPT !.event_id = JStr(id), !.actor = JStr("alice"),
                             !.payload = Fact("a", "c", JStr("open"), JNum(90))]),
       JStr("garbage"),
       JObj([NoFields EXCEPT !.type = JStr("OBSERVATION"), !.event_id = JStr(id),
                             !.actor = JStr("alice")]),
       Ev("ATTESTATION", id, JStr("not an object")),
       Ev("OBSERVATION", id,
          JObj([NoPayload EXCEPT !.predicate = JStr("c"), !.value = JStr("open")])),
       Ev("RETRACTION", id,
          JObj([NoPayload EXCEPT !.subject = JStr("a"), !.predicate = JNum(1)])),
       JObj([NoFields EXCEPT !.type = JStr("OBSERVATION"), !.id = JStr(id),
                             !.payload = Fact("a", "c", JStr("open"), JNum(90))]),
       JObj([NoFields EXCEPT !.type = JStr("ATTESTATION"), !.actor = JStr("alice"),
                             !.payload = Fact("a", "c", JStr("open"), Absent)]) >>

\* the templates apply_events batches are built from; the last one has the
\* empty string as its type
BatchTemplates(id) ==
    << Ev("OBSERVATION", id, Fact("a", "c", JStr("open"), JNum(90))),
       Ev("OBSERVATION", id, Fact("a", "c", JStr("closed"), JNum(90))),
       Ev("ATTESTATION", id, Fact("a", "c", JStr("open"), Absent)),
       Ev("RETRACTION", id, Fact("a", "c", Absent, Absent)),
       JStr("garbage"),
       Ev("", id, Fact("a", "c", JStr("open"), JNum(90))) >>

\* the arguments new() is called with: None, and Some(0.80)
ThresholdArgs == {None, Some(80)}

(* ------------------------- Spec: one reducer -------------------------- *)

Init ==
    /\ \E t \in ThresholdArgs : reducer = new(t)
    /\ call = [op |-> "new", events |-> <<>>]
    /\ fed = 0
    /\ r1 = NotInUse /\ r2 = NotInUse /\ log = NotInUse /\ pos2 = NotInUse
    /\ chain = NotInUse /\ chainResult = NotInUse
    /\ SignNotInUse /\ CanonNotInUse /\ MerkleNotInUse /\ CliNotInUse

ApplyEvent ==
    /\ fed < MaxEvents
    /\ \E j \in DOMAIN EventTemplates("") :
        LET event == EventTemplates(EventIds[fed + 1])[j]
        IN /\ reducer' = apply_event(reducer, event)
           /\ call' = [op |-> "apply_event", events |-> <<event>>]
    /\ fed' = fed + 1
    /\ UNCHANGED <<r1, r2, log, pos2, chain, chainResult,
                   signVars, canonVars, merkleVars, cliVars>>

ApplyEvents ==
    /\ \E n \in 0 .. (MaxEvents - fed) :
        \E js \in [1 .. n -> DOMAIN BatchTemplates("")] :
            LET events == [i \in 1 .. n |-> BatchTemplates(EventIds[fed + i])[js[i]]]
            IN /\ reducer' = apply_events(reducer, events)
               /\ call' = [op |-> "apply_events", events |-> events]
               /\ fed' = fed + n
    /\ UNCHANGED <<r1, r2, log, pos2, chain, chainResult,
                   signVars, canonVars, merkleVars, cliVars>>

Next == ApplyEvent \/ ApplyEvents

Spec == Init /\ [][Next]_vars

(* ------------------ SpecPair: two reducers, one log ------------------- *)

\* the templates of the log both instances consume
PairTemplates(id) ==
    << Ev("OBSERVATION", id, Fact("a", "c", JStr("open"), JNum(90))),
       Ev("OBSERVATION", id, Fact("a", "c", JStr("closed"), JNum(90))),
       Ev("OBSERVATION", id, Fact("a:b", "c", JStr("open"), JNum(20))),
       Ev("ATTESTATION", id, Fact("a", "c", JStr("open"), Absent)),
       Ev("RETRACTION", id, Fact("a", "c", Absent, Absent)),
       Ev("REDUCER_EPOCH", id, JObj([NoPayload EXCEPT !.epoch_id = JStr("ep1")])),
       Ev("CUSTOM", id, Absent),
       JStr("garbage") >>

InitPair ==
    /\ \E t \in ThresholdArgs : r1 = new(t) /\ r2 = new(t)
    /\ log = <<>>
    /\ pos2 = 0
    /\ reducer = NotInUse /\ call = NotInUse /\ fed = NotInUse
    /\ chain = NotInUse /\ chainResult = NotInUse
    /\ SignNotInUse /\ CanonNotInUse /\ MerkleNotInUse /\ CliNotInUse

\* the first instance takes the next event of the log through apply_event
PairApplyEvent ==
    /\ Len(log) < MaxEvents
    /\ \E j \in DOMAIN PairTemplates("") :
        LET event == PairTemplates(EventIds[Len(log) + 1])[j]
        IN /\ r1' = apply_event(r1, event)
           /\ log' = Append(log, event)
    /\ UNCHANGED <<r2, pos2, reducer, call, fed, chain, chainResult,
                   signVars, canonVars, merkleVars, cliVars>>

\* the second instance takes the next n events of the log through apply_events
PairApplyEvents ==
    /\ \E n \in 0 .. (Len(log) - pos2) :
        /\ r2' = apply_events(r2, SubSeq(log, pos2 + 1, pos2 + n))
        /\ pos2' = pos2 + n
    /\ UNCHANGED <<r1, log, reducer, call, fed, chain, chainResult,
                   signVars, canonVars, merkleVars, cliVars>>

NextPair == PairApplyEvent \/ PairApplyEvents

SpecPair == InitPair /\ [][NextPair]_vars

(* ------------------- SpecChain: verify_causal_chain ------------------- *)

ChainOk == <<"Ok">>

\* Err(ProvaraError::ChainValidation(format!(...))): the message is its
\* template and arguments
ChainValidation(template, args) == <<"Err", "ChainValidation", template, args>>

\* a plausible slip: one last event for all actors instead of one per actor
ChainStep_one_chain(event, actor_last_event) ==
    LET actor == event.actor
        err ==
            IF event.prev_event_hash = None
            THEN IF "*" \in DOMAIN actor_last_event
                 THEN Some(ChainValidation("Actor {} has multiple genesis events",
                                           <<actor>>))
                 ELSE None
            ELSE LET prev_hash == event.prev_event_hash[1]
                 IN IF "*" \notin DOMAIN actor_last_event
                    THEN Some(ChainValidation(
                                "Actor {} references non-existent previous event",
                                <<actor>>))
                    ELSE IF prev_hash # actor_last_event["*"]
                    THEN Some(ChainValidation(
                                "Broken chain for actor {}: expected {}, got {}",
                                <<actor, actor_last_event["*"], prev_hash>>))
                    ELSE None
    IN [err |-> err, map |-> MapInsert(actor_last_event, "*", event.event_id)]

\* a plausible slip: prev_event_hash is not compared with the recorded last
ChainStep_no_mismatch_check(event, actor_last_event) ==
    LET actor == event.actor
        err ==
            IF event.prev_event_hash = None
            THEN IF actor \in DOMAIN actor_last_event
                 THEN Some(ChainValidation("Actor {} has multiple genesis events",
                                           <<actor>>))
                 ELSE None
            ELSE IF actor \notin DOMAIN actor_last_event
                 THEN Some(ChainValidation(
                             "Actor {} references non-existent previous event",
                             <<actor>>))
                 ELSE None
    IN [err |-> err, map |-> MapInsert(actor_last_event, actor, event.event_id)]

\* a plausible slip: a null prev_event_hash is always taken for a first event
ChainStep_no_genesis_check(event, actor_last_event) ==
    LET actor == event.actor
        err ==
            IF event.prev_event_hash = None
            THEN None
            ELSE LET prev_hash == event.prev_event_hash[1]
                 IN IF actor \notin DOMAIN actor_last_event
                    THEN Some(ChainValidation(
                                "Actor {} references non-existent previous event",
                                <<actor>>))
                    ELSE IF prev_hash # actor_last_event[actor]
                    THEN Some(ChainValidation(
                                "Broken chain for actor {}: expected {}, got {}",
                                <<actor, actor_last_event[actor], prev_hash>>))
                    ELSE None
    IN [err |-> err, map |-> MapInsert(actor_last_event, actor, event.event_id)]

\* a plausible slip: the last event of an actor is recorded once and never replaced
ChainStep_keeps_first_event(event, actor_last_event) ==
    LET actor == event.actor
        err ==
            IF event.prev_event_hash = None
            THEN IF actor \in DOMAIN actor_last_event
                 THEN Some(ChainValidation("Actor {} has multiple genesis events",
                                           <<actor>>))
                 ELSE None
            ELSE LET prev_hash == event.prev_event_hash[1]
                 IN IF actor \notin DOMAIN actor_last_event
                    THEN Some(ChainValidation(
                                "Actor {} references non-existent previous event",
                                <<actor>>))
                    ELSE IF prev_hash # actor_last_event[actor]
                    THEN Some(ChainValidation(
                                "Broken chain for actor {}: expected {}, got {}",
                                <<actor, actor_last_event[actor], prev_hash>>))
                    ELSE None
    IN [err |-> err,
        map |-> IF actor \in DOMAIN actor_last_event
                THEN actor_last_event
                ELSE MapInsert(actor_last_event, actor, event.event_id)]

\* one iteration of the for loop: the error it returns, if any, and the
\* map after it
ChainStep(event, actor_last_event) ==
    LET actor == event.actor
        err ==
            IF event.prev_event_hash = None
            THEN IF actor \in DOMAIN actor_last_event
                 THEN Some(ChainValidation("Actor {} has multiple genesis events",
                                           <<actor>>))
                 ELSE None
            ELSE LET prev_hash == event.prev_event_hash[1]
                 IN IF actor \notin DOMAIN actor_last_event
                    THEN Some(ChainValidation(
                                "Actor {} references non-existent previous event",
                                <<actor>>))
                    ELSE IF prev_hash # actor_last_event[actor]
                    THEN Some(ChainValidation(
                                "Broken chain for actor {}: expected {}, got {}",
                                <<actor, actor_last_event[actor], prev_hash>>))
                    ELSE None
    IN [err |-> err, map |-> MapInsert(actor_last_event, actor, event.event_id)]

RECURSIVE ChainWalk(_, _)
ChainWalk(events, actor_last_event) ==
    IF events = <<>> THEN ChainOk
    ELSE LET step == ChainStep(Head(events), actor_last_event)
         IN IF step.err # None THEN step.err[1]
            ELSE ChainWalk(Tail(events), step.map)

verify_causal_chain(events) == ChainWalk(events, EmptyMap)

ChainActors == {"alice", "bob"}

ChainIds == {"evt_1", "evt_2", "evt_3"}

\* the Event values of a chain: event_id, actor, prev_event_hash
ChainEvents ==
    [event_id : ChainIds,
     actor : ChainActors,
     prev_event_hash : {None} \cup {Some(h) : h \in ChainIds}]

InitChain ==
    /\ chain = <<>>
    /\ chainResult = verify_causal_chain(<<>>)
    /\ reducer = NotInUse /\ call = NotInUse /\ fed = NotInUse
    /\ r1 = NotInUse /\ r2 = NotInUse /\ log = NotInUse /\ pos2 = NotInUse
    /\ SignNotInUse /\ CanonNotInUse /\ MerkleNotInUse /\ CliNotInUse

\* the caller verifies the sequence extended by one more event
VerifyExtended ==
    /\ Len(chain) < MaxChain
    /\ \E e \in ChainEvents :
        /\ chain' = Append(chain, e)
        /\ chainResult' = verify_causal_chain(chain')
    /\ UNCHANGED <<reducer, call, fed, r1, r2, log, pos2,
                   signVars, canonVars, merkleVars, cliVars>>

NextChain == VerifyExtended

SpecChain == InitChain /\ [][NextChain]_vars

(* ------------------- string literals as scalar values ----------------- *)

\* "type"
K_type == <<116, 121, 112, 101>>

\* "event_id"
K_event_id == <<101, 118, 101, 110, 116, 95, 105, 100>>

\* "actor"
K_actor == <<97, 99, 116, 111, 114>>

\* "prev_event_hash"
K_prev_event_hash == <<112, 114, 101, 118, 95, 101, 118, 101, 110, 116, 95, 104, 97, 115, 104>>

\* "timestamp_utc"
K_timestamp_utc == <<116, 105, 109, 101, 115, 116, 97, 109, 112, 95, 117, 116, 99>>

\* "payload"
K_payload == <<112, 97, 121, 108, 111, 97, 100>>

\* "value"
K_value == <<118, 97, 108, 117, 101>>

\* "path"
K_path == <<112, 97, 116, 104>>

\* "OBSERVATION"
S_OBSERVATION == <<79, 66, 83, 69, 82, 86, 65, 84, 73, 79, 78>>

\* "ATTESTATION"
S_ATTESTATION == <<65, 84, 84, 69, 83, 84, 65, 84, 73, 79, 78>>

\* "bp1_"
S_bp1 == <<98, 112, 49, 95>>

\* "evt_"
S_evt == <<101, 118, 116, 95>>

\* "t1"
S_t1 == <<116, 49>>

\* "t2"
S_t2 == <<116, 50>>

\* "evt_p"
S_evt_p == <<101, 118, 116, 95, 112>>

\* "evt_q"
S_evt_q == <<101, 118, 116, 95, 113>>

\* "open"
S_open == <<111, 112, 101, 110>>

(* ------------------- jcs-rs: the canonical JSON codec ------------------ *)

\* At the level of the codec a String is the sequence of its Unicode scalar
\* values and a serde_json Value is one of the tagged tuples below.  An f64
\* is its exact decimal expansion [neg, int, frac]: sign bit, digits of the
\* integer part (no leading zero, <<0>> for zero) and digits of the
\* fractional part (no trailing zero).  A Map is the sequence of its
\* <<key, value>> entries in iteration order, keys unique.

VNull == <<"Null">>

VBool(b) == <<"Bool", b>>

\* a Number that as_i64 or as_u64 accepts
VInt(i) == <<"Int", i>>

\* a Number held as f64
VFloat(d) == <<"Float", d>>

VString(s) == <<"String", s>>

VArray(a) == <<"Array", a>>

VObject(m) == <<"Object", m>>

Tag(v) == v[1]

\* Map::insert: a key the map holds keeps its place and takes the new value
MapEntriesInsert(m, k, v) ==
    IF \E i \in 1 .. Len(m) : m[i][1] = k
    THEN [i \in 1 .. Len(m) |-> IF m[i][1] = k THEN <<k, v>> ELSE m[i]]
    ELSE Append(m, <<k, v>>)

\* Map::get
MapEntriesGet(m, k) ==
    IF \E i \in 1 .. Len(m) : m[i][1] = k
    THEN (CHOOSE e \in {m[i] : i \in 1 .. Len(m)} : e[1] = k)[2]
    ELSE Absent

\* the concatenation of a sequence of sequences, by halves
RECURSIVE Flatten(_)
Flatten(seqs) ==
    IF seqs = <<>> THEN <<>>
    ELSE IF Len(seqs) = 1 THEN seqs[1]
    ELSE LET h == Len(seqs) \div 2
         IN Flatten(SubSeq(seqs, 1, h)) \o Flatten(SubSeq(seqs, h + 1, Len(seqs)))

\* the decimal digits of a natural number
RECURSIVE NatDigits(_)
NatDigits(n) == IF n < 10 THEN <<n>> ELSE Append(NatDigits(n \div 10), (n % 10))

DigitChars(ds) == [i \in 1 .. Len(ds) |-> 48 + ds[i]]

\* i64::to_string and u64::to_string
to_string(i) ==
    IF i < 0 THEN <<45>> \o DigitChars(NatDigits(-i)) ELSE DigitChars(NatDigits(i))

\* the digits of the decimal number ds + 1
RECURSIVE IncDigits(_)
IncDigits(ds) ==
    IF ds = <<>> THEN <<1>>
    ELSE IF ds[Len(ds)] = 9
         THEN Append(IncDigits(SubSeq(ds, 1, Len(ds) - 1)), 0)
         ELSE Append(SubSeq(ds, 1, Len(ds) - 1), ds[Len(ds)] + 1)

\* the number of fractional digits of format!("{:.17}", f)
FRACTION_DIGITS == 17

\* format!("{:.17}", f): the exact value of f rounded to 17 fractional
\* digits, ties to even
FormatFixed(d) ==
    LET padded == d.frac \o [i \in 1 .. FRACTION_DIGITS |-> 0]
        kept == SubSeq(padded, 1, FRACTION_DIGITS)
        rest == SubSeq(d.frac, FRACTION_DIGITS + 1, Len(d.frac))
        up == /\ rest # <<>>
              /\ \/ rest[1] > 5
                 \/ /\ rest[1] = 5
                    /\ \/ \E i \in 2 .. Len(rest) : rest[i] # 0
                       \/ kept[FRACTION_DIGITS] % 2 = 1
        all == IF up THEN IncDigits(d.int \o kept) ELSE d.int \o kept
        n == Len(all) - FRACTION_DIGITS
    IN (IF d.neg THEN <<45>> ELSE <<>>)
       \o DigitChars(SubSeq(all, 1, n)) \o <<46>>
       \o DigitChars(SubSeq(all, n + 1, Len(all)))

\* while s.ends_with('0') { s.pop(); }
RECURSIVE StripZeros(_)
StripZeros(s) ==
    IF s # <<>> /\ s[Len(s)] = 48 THEN StripZeros(SubSeq(s, 1, Len(s) - 1)) ELSE s

\* canonicalize_number: integers through to_string, an f64 through {:.17}
\* with the trailing zeros stripped and one fractional digit kept
canonicalize_number(n) ==
    IF Tag(n) = "Int" THEN to_string(n[2])
    ELSE LET s == FormatFixed(n[2])
             stripped == IF \E i \in 1 .. Len(s) : s[i] = 46 THEN StripZeros(s) ELSE s
         IN IF stripped[Len(stripped)] = 46 THEN Append(stripped, 48) ELSE stripped

\* char::is_control: the general category Cc, U+0000..U+001F and U+007F..U+009F
is_control(c) == c <= 31 \/ (c >= 127 /\ c <= 159)

HexChar(h) == IF h < 10 THEN 48 + h ELSE 87 + h

\* format!("\\u{:04x}", code) for a code below 0x10000
EscapeU(code) ==
    <<92, 117, HexChar(code \div 4096), HexChar((code \div 256) % 16),
      HexChar((code \div 16) % 16), HexChar(code % 16)>>

\* one arm of the match in canonicalize_string
canonicalize_char(c) ==
    CASE c = 34 -> <<92, 34>>
      [] c = 92 -> <<92, 92>>
      [] c = 10 -> <<92, 110>>
      [] c = 13 -> <<92, 114>>
      [] c = 9 -> <<92, 116>>
      [] c = 8 -> <<92, 98>>
      [] c = 12 -> <<92, 102>>
      [] OTHER -> IF is_control(c) THEN EscapeU(c) ELSE <<c>>

canonicalize_string(s) ==
    <<34>> \o Flatten([i \in 1 .. Len(s) |-> canonicalize_char(s[i])]) \o <<34>>

\* the UTF-8 encoding of a scalar value
Utf8(c) ==
    IF c < 128 THEN <<c>>
    ELSE IF c < 2048 THEN <<192 + (c \div 64), 128 + (c % 64)>>
    ELSE IF c < 65536
         THEN <<224 + (c \div 4096), 128 + ((c \div 64) % 64), 128 + (c % 64)>>
         ELSE <<240 + (c \div 262144), 128 + ((c \div 4096) % 64),
                128 + ((c \div 64) % 64), 128 + (c % 64)>>

\* String::as_bytes
as_bytes(s) == Flatten([i \in 1 .. Len(s) |-> Utf8(s[i])])

\* lexicographic order of two sequences of numbers
SeqLess(a, b) ==
    \E i \in 1 .. Len(b) :
        /\ \A j \in 1 .. (i - 1) : j <= Len(a) /\ a[j] = b[j]
        /\ \/ i = Len(a) + 1
           \/ i <= Len(a) /\ a[i] < b[i]

\* a.as_str().cmp(b.as_str()) == Less: str compares as its UTF-8 bytes
StrLess(a, b) == SeqLess(as_bytes(a), as_bytes(b))

\* the place of key k in an already sorted sequence, after equal keys
RECURSIVE InsertKey(_, _)
InsertKey(sorted, k) ==
    IF sorted = <<>> THEN <<k>>
    ELSE IF StrLess(k, Head(sorted)) THEN <<k>> \o sorted
         ELSE <<Head(sorted)>> \o InsertKey(Tail(sorted), k)

\* keys.sort_by(|a, b| a.as_str().cmp(b.as_str())), a stable sort
RECURSIVE SortKeys(_)
SortKeys(keys) ==
    IF keys = <<>> THEN <<>>
    ELSE InsertKey(SortKeys(SubSeq(keys, 1, Len(keys) - 1)), keys[Len(keys)])

\* obj.keys()
MapKeys(m) == [i \in 1 .. Len(m) |-> m[i][1]]

\* the items of s with sep between them
RECURSIVE Join(_, _)
Join(s, sep) ==
    IF s = <<>> THEN <<>>
    ELSE IF Len(s) = 1 THEN s[1]
         ELSE s[1] \o sep \o Join(Tail(s), sep)

\* a plausible slip: the keys are emitted in the order the map iterates them
RECURSIVE canonicalize_value_unsorted(_)
canonicalize_value_unsorted(v) ==
    CASE Tag(v) = "Null" -> <<110, 117, 108, 108>>
      [] Tag(v) = "Bool" ->
            IF v[2] THEN <<116, 114, 117, 101>> ELSE <<102, 97, 108, 115, 101>>
      [] Tag(v) \in {"Int", "Float"} -> canonicalize_number(v)
      [] Tag(v) = "String" -> canonicalize_string(v[2])
      [] Tag(v) = "Array" ->
            <<91>>
            \o Join([i \in 1 .. Len(v[2]) |-> canonicalize_value_unsorted(v[2][i])],
                    <<44>>)
            \o <<93>>
      [] Tag(v) = "Object" ->
            LET keys == MapKeys(v[2])
            IN <<123>>
               \o Join([i \in 1 .. Len(keys) |->
                            canonicalize_string(keys[i]) \o <<58>>
                            \o canonicalize_value_unsorted(
                                    MapEntriesGet(v[2], keys[i]))],
                       <<44>>)
               \o <<125>>

\* canonicalize_value with canonicalize_array and canonicalize_object: the
\* canonical text of a Value
RECURSIVE canonicalize_value(_)
canonicalize_value(v) ==
    CASE Tag(v) = "Null" -> <<110, 117, 108, 108>>
      [] Tag(v) = "Bool" ->
            IF v[2] THEN <<116, 114, 117, 101>> ELSE <<102, 97, 108, 115, 101>>
      [] Tag(v) \in {"Int", "Float"} -> canonicalize_number(v)
      [] Tag(v) = "String" -> canonicalize_string(v[2])
      [] Tag(v) = "Array" ->
            <<91>>
            \o Join([i \in 1 .. Len(v[2]) |-> canonicalize_value(v[2][i])], <<44>>)
            \o <<93>>
      [] Tag(v) = "Object" ->
            LET keys == SortKeys(MapKeys(v[2]))
            IN <<123>>
               \o Join([i \in 1 .. Len(keys) |->
                            canonicalize_string(keys[i]) \o <<58>>
                            \o canonicalize_value(MapEntriesGet(v[2], keys[i]))],
                       <<44>>)
               \o <<125>>

\* canonicalize: the bytes of the canonical text
canonicalize(v) == as_bytes(canonicalize_value(v))

\* sha2::Sha256 over bytes: injective on the hashed bytes
sha256_hash(data) == <<"sha256", data>>

\* canonical_hash: SHA-256 of the canonical bytes
canonical_hash(v) == sha256_hash(canonicalize(v))


(* the f64 values the model feeds, as exact decimal expansions *)

\* 0.0
F64_Zero ==
    [neg |-> FALSE, int |-> <<0>>,
     frac |-> <<>>]

\* -0.0
F64_NegZero ==
    [neg |-> TRUE, int |-> <<0>>,
     frac |-> <<>>]

\* 1.0
F64_One ==
    [neg |-> FALSE, int |-> <<1>>,
     frac |-> <<>>]

\* 0.5
F64_Half ==
    [neg |-> FALSE, int |-> <<0>>,
     frac |-> <<5>>]

\* the f64 nearest to 0.1
F64_Tenth ==
    [neg |-> FALSE, int |-> <<0>>,
     frac |-> <<1, 0, 0, 0, 0, 0, 0, 0, 0, 0, 0, 0, 0, 0, 0, 0, 0, 5, 5, 5,
              1, 1, 1, 5, 1, 2, 3, 1, 2, 5, 7, 8, 2, 7, 0, 2, 1, 1, 8, 1, 5,
              8, 3, 4, 0, 4, 5, 4, 1, 0, 1, 5, 6, 2, 5>>]

\* 2^-18: the 18th fractional digit is its last, a 5
F64_TwoPowMinus18 ==
    [neg |-> FALSE, int |-> <<0>>,
     frac |-> <<0, 0, 0, 0, 0, 3, 8, 1, 4, 6, 9, 7, 2, 6, 5, 6, 2, 5>>]

\* 2^-60: below half a unit of the 17th fractional digit
F64_TwoPowMinus60 ==
    [neg |-> FALSE, int |-> <<0>>,
     frac |-> <<0, 0, 0, 0, 0, 0, 0, 0, 0, 0, 0, 0, 0, 0, 0, 0, 0, 0, 8, 6,
              7, 3, 6, 1, 7, 3, 7, 9, 8, 8, 4, 0, 3, 5, 4, 7, 2, 0, 5, 9, 6,
              2, 2, 4, 0, 6, 9, 5, 9, 5, 3, 3, 6, 9, 1, 4, 0, 6, 2, 5>>]

\* the f64 nearest to 0.00000381469726562
F64_NearTwoPowMinus18 ==
    [neg |-> FALSE, int |-> <<0>>,
     frac |-> <<0, 0, 0, 0, 0, 3, 8, 1, 4, 6, 9, 7, 2, 6, 5, 6, 1, 9, 9, 9,
              9, 9, 6, 4, 5, 1, 2, 3, 5, 7, 8, 6, 5, 0, 9, 8, 4, 7, 9, 6, 9,
              2, 2, 7, 8, 4, 8, 8, 0, 7, 3, 4, 9, 8, 0, 1, 0, 6, 3, 5, 3, 7,
              5, 9, 7, 6, 5, 6, 2, 5>>]

(* --------------- serde_json::from_str on canonical text --------------- *)

\* String::from_utf8 on well-formed UTF-8; each step takes the bytes up to
\* the next one that starts a sequence of several bytes
RECURSIVE from_utf8(_)
from_utf8(b) ==
    LET leads == {j \in 1 .. Len(b) : b[j] >= 128}
    IN IF leads = {} THEN b
       ELSE
       LET s == CHOOSE j \in leads : \A k \in leads : j <= k
           ascii == SubSeq(b, 1, s - 1)
       IN IF b[s] < 224
          THEN ascii \o <<(b[s] - 192) * 64 + (b[s + 1] - 128)>>
               \o from_utf8(SubSeq(b, s + 2, Len(b)))
          ELSE IF b[s] < 240
          THEN ascii \o <<(b[s] - 224) * 4096 + (b[s + 1] - 128) * 64 + (b[s + 2] - 128)>>
               \o from_utf8(SubSeq(b, s + 3, Len(b)))
          ELSE ascii \o <<(b[s] - 240) * 262144 + (b[s + 1] - 128) * 4096
                         + (b[s + 2] - 128) * 64 + (b[s + 3] - 128)>>
               \o from_utf8(SubSeq(b, s + 4, Len(b)))

ParseErr == [ok |-> FALSE]

Parsed(v, next) == [ok |-> TRUE, v |-> v, next |-> next]

IsDigit(c) == c >= 48 /\ c <= 57

HexVal(c) ==
    IF IsDigit(c) THEN c - 48 ELSE IF c >= 97 THEN c - 87 ELSE c - 55

IsHex(c) == IsDigit(c) \/ (c >= 97 /\ c <= 102) \/ (c >= 65 /\ c <= 70)

\* the characters of a string literal from position i to its closing quote;
\* acc holds the characters read so far, and each step reads the characters
\* up to the next quote, backslash or control character.  Surrogate
\* escapes do not occur in
\* canonical text and are not read here.
RECURSIVE ParseChars(_, _, _)
ParseChars(t, i, acc) ==
    LET stops == {j \in i .. Len(t) : t[j] = 34 \/ t[j] = 92 \/ t[j] < 32}
    IN IF stops = {} THEN ParseErr
       ELSE
       LET s == CHOOSE j \in stops : \A k \in stops : j <= k
           read == acc \o SubSeq(t, i, s - 1)
       IN IF t[s] = 34 THEN Parsed(read, s + 1)
          ELSE IF t[s] = 92
          THEN IF s + 1 > Len(t) THEN ParseErr
               ELSE LET e == t[s + 1]
                    IN CASE e = 34 -> ParseChars(t, s + 2, Append(read, 34))
                         [] e = 92 -> ParseChars(t, s + 2, Append(read, 92))
                         [] e = 47 -> ParseChars(t, s + 2, Append(read, 47))
                         [] e = 98 -> ParseChars(t, s + 2, Append(read, 8))
                         [] e = 102 -> ParseChars(t, s + 2, Append(read, 12))
                         [] e = 110 -> ParseChars(t, s + 2, Append(read, 10))
                         [] e = 114 -> ParseChars(t, s + 2, Append(read, 13))
                         [] e = 116 -> ParseChars(t, s + 2, Append(read, 9))
                         [] e = 117 ->
                              IF s + 5 <= Len(t) /\ \A j \in 2 .. 5 : IsHex(t[s + j])
                              THEN ParseChars(t, s + 6,
                                       Append(read, HexVal(t[s + 2]) * 4096
                                                    + HexVal(t[s + 3]) * 256
                                                    + HexVal(t[s + 4]) * 16
                                                    + HexVal(t[s + 5])))
                              ELSE ParseErr
                         [] OTHER -> ParseErr
          ELSE ParseErr

\* the first position from i on that holds no digit
RECURSIVE DigitsEnd(_, _)
DigitsEnd(t, i) == IF i <= Len(t) /\ IsDigit(t[i]) THEN DigitsEnd(t, i + 1) ELSE i

RECURSIVE DigitsValue(_)
DigitsValue(ds) ==
    IF ds = <<>> THEN 0 ELSE DigitsValue(SubSeq(ds, 1, Len(ds) - 1)) * 10 + ds[Len(ds)]

RECURSIVE StripLeadingZeros(_)
StripLeadingZeros(ds) ==
    IF Len(ds) > 1 /\ ds[1] = 0 THEN StripLeadingZeros(Tail(ds)) ELSE ds

RECURSIVE StripTrailingZeros(_)
StripTrailingZeros(ds) ==
    IF ds # <<>> /\ ds[Len(ds)] = 0
    THEN StripTrailingZeros(SubSeq(ds, 1, Len(ds) - 1)) ELSE ds

\* the f64 nearest to a decimal: the decimal itself when an f64 holds it
\* exactly, and for the other decimals canonical text can hold here the
\* neighbour that round-to-nearest picks
nearest_f64(d) ==
    LET tenth17 == [neg |-> FALSE, int |-> <<0>>,
                    frac |-> <<1, 0, 0, 0, 0, 0, 0, 0, 0, 0, 0, 0, 0, 0, 0, 0, 1>>]
        twoPowMinus18Text ==
                   [neg |-> FALSE, int |-> <<0>>,
                    frac |-> <<0, 0, 0, 0, 0, 3, 8, 1, 4, 6, 9, 7, 2, 6, 5, 6, 2>>]
    IN CASE d = tenth17 -> F64_Tenth
         [] d = twoPowMinus18Text -> F64_NearTwoPowMinus18
         [] OTHER -> d

\* a number literal at position i: without a fraction it is an integer,
\* with one it is an f64.  Canonical text holds no exponent.
ParseNumber(t, i) ==
    LET neg == t[i] = 45
        start == IF neg THEN i + 1 ELSE i
        e == DigitsEnd(t, start)
        int == [j \in 1 .. (e - start) |-> t[start + j - 1] - 48]
    IN IF e = start THEN ParseErr
       ELSE IF e <= Len(t) /\ t[e] = 46
       THEN LET f == DigitsEnd(t, e + 1)
                frac == [j \in 1 .. (f - e - 1) |-> t[e + j] - 48]
            IN IF f = e + 1 THEN ParseErr
               ELSE Parsed(VFloat(nearest_f64(
                               [neg |-> neg, int |-> StripLeadingZeros(int),
                                frac |-> StripTrailingZeros(frac)])), f)
       ELSE IF e <= Len(t) /\ t[e] \in {101, 69} THEN ParseErr
       ELSE IF neg /\ DigitsValue(int) = 0
            THEN Parsed(VFloat([neg |-> TRUE, int |-> <<0>>, frac |-> <<>>]), e)
            ELSE Parsed(VInt(IF neg THEN -DigitsValue(int) ELSE DigitsValue(int)), e)

Literal(t, i, word, v) ==
    IF i + Len(word) - 1 <= Len(t) /\ SubSeq(t, i, i + Len(word) - 1) = word
    THEN Parsed(v, i + Len(word)) ELSE ParseErr

RECURSIVE ParseValue(_, _)
RECURSIVE ParseElements(_, _, _)
RECURSIVE ParseMembers(_, _, _)

\* the value that starts at position i
ParseValue(t, i) ==
    IF i > Len(t) THEN ParseErr
    ELSE CASE t[i] = 110 -> Literal(t, i, <<110, 117, 108, 108>>, VNull)
           [] t[i] = 116 -> Literal(t, i, <<116, 114, 117, 101>>, VBool(TRUE))
           [] t[i] = 102 -> Literal(t, i, <<102, 97, 108, 115, 101>>, VBool(FALSE))
           [] t[i] = 34 ->
                LET r == ParseChars(t, i + 1, <<>>)
                IN IF r.ok THEN Parsed(VString(r.v), r.next) ELSE ParseErr
           [] t[i] = 91 ->
                IF i + 1 <= Len(t) /\ t[i + 1] = 93 THEN Parsed(VArray(<<>>), i + 2)
                ELSE ParseElements(t, i + 1, <<>>)
           [] t[i] = 123 ->
                IF i + 1 <= Len(t) /\ t[i + 1] = 125 THEN Parsed(VObject(<<>>), i + 2)
                ELSE ParseMembers(t, i + 1, <<>>)
           [] t[i] = 45 \/ IsDigit(t[i]) -> ParseNumber(t, i)
           [] OTHER -> ParseErr

\* the elements of an array from position i on
ParseElements(t, i, acc) ==
    LET r == ParseValue(t, i)
    IN IF ~r.ok \/ r.next > Len(t) THEN ParseErr
       ELSE IF t[r.next] = 44 THEN ParseElements(t, r.next + 1, Append(acc, r.v))
       ELSE IF t[r.next] = 93 THEN Parsed(VArray(Append(acc, r.v)), r.next + 1)
       ELSE ParseErr

\* the members of an object from position i on; a repeated key keeps the
\* last value
ParseMembers(t, i, acc) ==
    IF i > Len(t) \/ t[i] # 34 THEN ParseErr
    ELSE LET k == ParseChars(t, i + 1, <<>>)
         IN IF ~k.ok \/ k.next > Len(t) \/ t[k.next] # 58 THEN ParseErr
            ELSE LET r == ParseValue(t, k.next + 1)
                 IN IF ~r.ok \/ r.next > Len(t) THEN ParseErr
                    ELSE IF t[r.next] = 44
                    THEN ParseMembers(t, r.next + 1, MapEntriesInsert(acc, k.v, r.v))
                    ELSE IF t[r.next] = 125
                    THEN Parsed(VObject(MapEntriesInsert(acc, k.v, r.v)), r.next + 1)
                    ELSE ParseErr

\* serde_json::from_slice: Some(value) when the bytes are one JSON text
from_slice(bytes) ==
    LET t == from_utf8(bytes)
        r == ParseValue(t, 1)
    IN IF r.ok /\ r.next = Len(t) + 1 THEN Some(r.v) ELSE None


(* --------------- SpecSign: the Ed25519 signing envelope --------------- *)

\* hex::encode of a sequence of bytes
hex_encode(bytes) ==
    Flatten([i \in 1 .. Len(bytes) |-> <<HexChar(bytes[i] \div 16), HexChar(bytes[i] % 16)>>])

\* hex::encode(&hash[0..n]) of a SHA-256 term: the model keeps the hashed
\* bytes whole, so that different hashes have different prefixes
HashPrefixHex(hash) == hex_encode(hash[2])

\* KeyPair::from_bytes(seed): the signing key is the seed
KeyPair(seed) == [signing_key |-> seed]

\* KeyPair::public_key: the verifying key of the seed, 32 bytes of which the
\* first stands for all
public_key(keypair) ==
    CASE keypair.signing_key = "seed_a" -> <<161>>
      [] keypair.signing_key = "seed_b" -> <<178>>

\* derive_key_id: "bp1_" and the hex of the first bytes of SHA-256(key)
derive_key_id(public_key_bytes) == S_bp1 \o HashPrefixHex(sha256_hash(public_key_bytes))

\* KeyPair::key_id
key_id(keypair) == derive_key_id(public_key(keypair))

\* SigningKey::sign: Ed25519 is deterministic, and only the holder of the
\* seed produces the 64 bytes that verify for a message
Ed25519Sign(seed, message) == <<"ed25519", seed, message>>

\* VerifyingKey::verify
Ed25519Verify(verifying_key, message, sig) ==
    /\ Len(sig) = 3 /\ sig[1] = "ed25519"
    /\ public_key(KeyPair(sig[2])) = verifying_key
    /\ sig[3] = message

\* base64 STANDARD.encode of bytes; a string that is not Base64 is
\* <<"not_base64">>
Base64(bytes) == <<"base64", bytes>>

\* the number of bytes of a byte string: an Ed25519 signature has 64, the
\* other byte strings are <<"bytes", n>>
ByteLen(bytes) == IF bytes[1] = "ed25519" THEN 64 ELSE bytes[2]

\* Event::new
Event_new(event_type, actor, prev_event_hash, payload) ==
    [event_type |-> event_type, event_id |-> <<>>, actor |-> actor,
     prev_event_hash |-> prev_event_hash, payload |-> payload,
     timestamp_utc |-> None, signature |-> None]

\* a plausible slip: the signing payload leaves the event_id out
signing_payload_without_event_id(e) ==
    LET m1 == MapEntriesInsert(<<>>, K_type, VString(e.event_type))
        m3 == MapEntriesInsert(m1, K_actor, VString(e.actor))
        m4 == IF e.prev_event_hash # None
              THEN MapEntriesInsert(m3, K_prev_event_hash, VString(e.prev_event_hash[1]))
              ELSE m3
        m5 == IF e.timestamp_utc # None
              THEN MapEntriesInsert(m4, K_timestamp_utc, VString(e.timestamp_utc[1]))
              ELSE m4
    IN VObject(MapEntriesInsert(m5, K_payload, e.payload))

\* Event::signing_payload
signing_payload(e) ==
    LET m1 == MapEntriesInsert(<<>>, K_type, VString(e.event_type))
        m2 == MapEntriesInsert(m1, K_event_id, VString(e.event_id))
        m3 == MapEntriesInsert(m2, K_actor, VString(e.actor))
        m4 == IF e.prev_event_hash # None
              THEN MapEntriesInsert(m3, K_prev_event_hash, VString(e.prev_event_hash[1]))
              ELSE m3
        m5 == IF e.timestamp_utc # None
              THEN MapEntriesInsert(m4, K_timestamp_utc, VString(e.timestamp_utc[1]))
              ELSE m4
    IN VObject(MapEntriesInsert(m5, K_payload, e.payload))

\* a plausible slip: the id is derived from the signing payload, which
\* holds the event_id itself
derive_event_id_of_signing_payload(e) ==
    S_evt \o HashPrefixHex(canonical_hash(signing_payload(e)))

\* derive_event_id
derive_event_id(e) ==
    LET m1 == MapEntriesInsert(<<>>, K_type, VString(e.event_type))
        m2 == MapEntriesInsert(m1, K_actor, VString(e.actor))
        m3 == IF e.prev_event_hash # None
              THEN MapEntriesInsert(m2, K_prev_event_hash, VString(e.prev_event_hash[1]))
              ELSE m2
        m4 == IF e.timestamp_utc # None
              THEN MapEntriesInsert(m3, K_timestamp_utc, VString(e.timestamp_utc[1]))
              ELSE m3
        event_data == MapEntriesInsert(m4, K_payload, e.payload)
    IN S_evt \o HashPrefixHex(canonical_hash(VObject(event_data)))

\* a plausible slip: the canonical bytes are signed, not their hash
create_event_full_signs_bytes(event_type, keypair, prev_event_hash, payload, timestamp_utc) ==
    LET e0 == [Event_new(event_type, key_id(keypair), prev_event_hash, payload)
                 EXCEPT !.timestamp_utc = timestamp_utc]
        e1 == [e0 EXCEPT !.event_id = derive_event_id(e0)]
        canonical_bytes == canonicalize(signing_payload(e1))
    IN [e1 EXCEPT !.signature =
            Some(Base64(Ed25519Sign(keypair.signing_key, canonical_bytes)))]

\* create_event_full
create_event_full(event_type, keypair, prev_event_hash, payload, timestamp_utc) ==
    LET e0 == [Event_new(event_type, key_id(keypair), prev_event_hash, payload)
                 EXCEPT !.timestamp_utc = timestamp_utc]
        e1 == [e0 EXCEPT !.event_id = derive_event_id(e0)]
        canonical_bytes == canonicalize(signing_payload(e1))
        hash == sha256_hash(canonical_bytes)
    IN [e1 EXCEPT !.signature =
            Some(Base64(Ed25519Sign(keypair.signing_key, hash)))]

OkTrue == <<"Ok", TRUE>>

\* Err(ProvaraError::kind(..))
ProvaraErr(kind) == <<"Err", kind>>

\* verify_event_signature
verify_event_signature(e, public_key_bytes) ==
    IF e.signature = None THEN ProvaraErr("InvalidEvent")
    ELSE LET signature_b64 == e.signature[1]
         IN IF signature_b64[1] # "base64" THEN ProvaraErr("Encoding")
            ELSE LET sig_bytes == signature_b64[2]
                     hash == sha256_hash(canonicalize(signing_payload(e)))
                 IN IF ByteLen(sig_bytes) # 64 THEN ProvaraErr("InvalidEvent")
                    ELSE IF ~Ed25519Verify(public_key_bytes, hash, sig_bytes)
                    THEN ProvaraErr("Crypto")
                    ELSE OkTrue

Seeds == {"seed_a", "seed_b"}

SignTypes == {S_OBSERVATION, S_ATTESTATION}

SignPrevs == {None, Some(S_evt_p)}

SignTimestamps == {None, Some(S_t1)}

\* payloads: null, a string fact, and two facts whose values are f64
\* numbers less than 10^-17 apart
SignPayloads ==
    {VNull,
     VObject(<<<<K_value, VString(S_open)>>>>),
     VObject(<<<<K_value, VFloat(F64_Zero)>>>>),
     VObject(<<<<K_value, VFloat(F64_TwoPowMinus60)>>>>)}

ContentFields ==
    {"event_type", "event_id", "actor", "prev_event_hash", "timestamp_utc", "payload"}

EventFields == ContentFields \cup {"signature"}

\* what a party without the signer's seed can put in place of a field
ContentValues(f) ==
    CASE f = "event_type" -> SignTypes
      [] f = "event_id" -> {S_evt_q, <<>>}
      [] f = "actor" -> {key_id(KeyPair(s)) : s \in Seeds}
      [] f = "prev_event_hash" -> SignPrevs \cup {Some(S_evt_q)}
      [] f = "timestamp_utc" -> SignTimestamps \cup {Some(S_t2)}
      [] f = "payload" -> SignPayloads

\* the event with at most one of its content fields replaced
ContentChanges(e) ==
    {e} \cup {[e EXCEPT ![f] = x] : <<f, x>> \in
                UNION {{<<g, y>> : y \in ContentValues(g)} : g \in ContentFields}}

\* the signature fields such a party can supply for the event: the one it
\* carries, none, a string that is not Base64, byte strings of 63 and of 64
\* bytes, and a signature of the event under a seed of its own
SignatureValues(e, who) ==
    {e.signature, None, Some(<<"not_base64">>), Some(Base64(<<"bytes", 63>>)),
     Some(Base64(<<"bytes", 64>>))}
    \cup {Some(Base64(Ed25519Sign(s, sha256_hash(canonicalize(signing_payload(e)))))) :
            s \in Seeds \ {who}}

InitSign ==
    /\ signer \in Seeds
    /\ \E t \in SignTypes, p \in SignPrevs, ts \in SignTimestamps, pl \in SignPayloads :
        original = create_event_full(t, KeyPair(signer), p, pl, ts)
    /\ presented = original
    /\ verification = None
    /\ reducer = NotInUse /\ call = NotInUse /\ fed = NotInUse
    /\ r1 = NotInUse /\ r2 = NotInUse /\ log = NotInUse /\ pos2 = NotInUse
    /\ chain = NotInUse /\ chainResult = NotInUse
    /\ CanonNotInUse /\ MerkleNotInUse /\ CliNotInUse

\* the receiver calls verify_event_signature with the signer's public key
VerifyEventSignature ==
    /\ verification = None
    /\ verification' =
            Some(verify_event_signature(presented, public_key(KeyPair(signer))))
    /\ UNCHANGED <<signer, original, presented>>
    /\ UNCHANGED <<reducer, call, fed, r1, r2, log, pos2, chain, chainResult,
                   canonVars, merkleVars, cliVars>>

\* somebody without the seed changes the event in transit: at most one
\* content field, and the signature
TamperEvent ==
    /\ presented = original
    /\ \E c \in ContentChanges(original) :
        \E sig \in SignatureValues(c, signer) :
            /\ presented' = [c EXCEPT !.signature = sig]
            /\ presented' # original
    /\ verification' = None
    /\ UNCHANGED <<signer, original>>
    /\ UNCHANGED <<reducer, call, fed, r1, r2, log, pos2, chain, chainResult,
                   canonVars, merkleVars, cliVars>>

NextSign == VerifyEventSignature \/ TamperEvent

SpecSign == InitSign /\ [][NextSign]_vars


(* ------------------ SpecCanon: canonicalize and re-parse --------------- *)

\* strings: empty, plain, quote and backslash, the controls with a short
\* escape, other C0 controls, DEL, a C1 control next to U+00A0, e-acute,
\* U+FFFD, U+1F600, and a mix
CanonStrings ==
    {<<>>, <<97>>, <<97, 98>>, <<34, 92>>, <<8, 9, 10, 12, 13>>, <<0, 31>>,
     <<127>>, <<159, 160>>, <<233>>, <<65533>>, <<128512>>, <<97, 128512, 47>>}

\* keys: "a", "b", "aa", the empty key, DEL, U+FFFD and U+1F600
CanonKeys == {<<97>>, <<98>>, <<97, 97>>, <<>>, <<127>>, <<65533>>, <<128512>>}

CanonScalars ==
    {VNull, VBool(TRUE), VBool(FALSE), VInt(0), VInt(10), VInt(-7)}
    \cup {VFloat(d) : d \in {F64_Zero, F64_NegZero, F64_One, F64_Half, F64_Tenth,
                            F64_TwoPowMinus18, F64_TwoPowMinus60}}
    \cup {VString(s) : s \in CanonStrings}

\* the value every object of the pool holds under key k
ValueUnder(k) ==
    CASE k = <<97>> -> VInt(1)
      [] k = <<98>> -> VArray(<<VFloat(F64_TwoPowMinus18), VNull>>)
      [] k = <<97, 97>> -> VObject(<<<<<<98>>, VInt(2)>>, <<<<97>>, VBool(TRUE)>>>>)
      [] k = <<>> -> VString(<<34>>)
      [] OTHER -> VString(k)

\* the maps that hold exactly the keys ks, in every insertion order
MapsOver(ks) ==
    {[i \in 1 .. Cardinality(ks) |-> <<order[i], ValueUnder(order[i])>>] :
        order \in {o \in [1 .. Cardinality(ks) -> ks] :
                        \A i, j \in 1 .. Cardinality(ks) : i # j => o[i] # o[j]}}

\* the most keys an object of the pool holds
MaxKeys == 2

CanonObjects ==
    {VObject(m) : m \in UNION {MapsOver(ks) :
                        ks \in {x \in SUBSET CanonKeys : Cardinality(x) <= MaxKeys}}}

CanonArrays ==
    {VArray(<<>>), VArray(<<VInt(1), VString(<<97>>)>>),
     VArray(<<VArray(<<>>), VObject(<<>>), VFloat(F64_Tenth)>>)}

CanonValues == CanonScalars \cup CanonArrays \cup CanonObjects

InitCanon ==
    /\ jsonValue \in CanonValues
    /\ jsonText = None
    /\ reparsed = None
    /\ reducer = NotInUse /\ call = NotInUse /\ fed = NotInUse
    /\ r1 = NotInUse /\ r2 = NotInUse /\ log = NotInUse /\ pos2 = NotInUse
    /\ chain = NotInUse /\ chainResult = NotInUse
    /\ SignNotInUse /\ MerkleNotInUse /\ CliNotInUse

\* canonicalize(&value)
Canonicalize ==
    /\ jsonText = None
    /\ jsonText' = Some(canonicalize(jsonValue))
    /\ UNCHANGED <<jsonValue, reparsed>>
    /\ UNCHANGED <<reducer, call, fed, r1, r2, log, pos2, chain, chainResult,
                   signVars, merkleVars, cliVars>>

\* canonicalize(&serde_json::from_slice(&bytes)?) on the canonical bytes
Reparse ==
    /\ jsonText # None /\ reparsed = None
    /\ LET parsed == from_slice(jsonText[1])
       IN reparsed' = IF parsed = None THEN Some(<<"Err">>)
                      ELSE Some(<<"Ok", canonicalize(parsed[1])>>)
    /\ UNCHANGED <<jsonValue, jsonText>>
    /\ UNCHANGED <<reducer, call, fed, r1, r2, log, pos2, chain, chainResult,
                   signVars, merkleVars, cliVars>>

NextCanon == Canonicalize \/ Reparse

SpecCanon == InitCanon /\ [][NextCanon]_vars


(* ----------------- SpecMerkle: compute_merkle_root -------------------- *)

\* hex::encode of a 32-byte hash
hex(hash) == <<"hex", hash>>

\* sha256_hash_hex
sha256_hash_hex(data) == hex(sha256_hash(data))

\* a.get("path").and_then(|v| v.as_str()).unwrap_or("")
PathOf(entry) ==
    LET p == IF Tag(entry) = "Object" THEN MapEntriesGet(entry[2], K_path) ELSE Absent
    IN IF p # Absent /\ Tag(p) = "String" THEN p[2] ELSE <<>>

\* the place of an entry in an already sorted sequence, after the entries
\* whose path is not greater
RECURSIVE InsertByPath(_, _)
InsertByPath(sorted, entry) ==
    IF sorted = <<>> THEN <<entry>>
    ELSE IF StrLess(PathOf(entry), PathOf(Head(sorted))) THEN <<entry>> \o sorted
         ELSE <<Head(sorted)>> \o InsertByPath(Tail(sorted), entry)

\* sorted_entries.sort_by(|a, b| path_a.cmp(path_b)), a stable sort
RECURSIVE SortByPath(_)
SortByPath(es) ==
    IF es = <<>> THEN <<>>
    ELSE InsertByPath(SortByPath(SubSeq(es, 1, Len(es) - 1)), es[Len(es)])

\* Sha256 fed chunk[0] and then chunk[1]: the hash of their concatenation
HashPair(left, right) == sha256_hash(<<left, right>>)

\* a plausible slip: a level of odd length is not padded, its last hash is
\* carried up as it is
RECURSIVE MerkleLoop_carries_last(_)
MerkleLoop_carries_last(hashes) ==
    IF Len(hashes) > 1
    THEN MerkleLoop_carries_last(
            [i \in 1 .. (Len(hashes) + 1) \div 2 |->
                IF 2 * i <= Len(hashes) THEN HashPair(hashes[2 * i - 1], hashes[2 * i])
                ELSE hashes[2 * i - 1]])
    ELSE hashes

\* the while loop of compute_merkle_root, entered with a level of even
\* length
RECURSIVE MerkleLoop(_)
MerkleLoop(hashes) ==
    IF Len(hashes) > 1
    THEN LET next_level ==
                [i \in 1 .. Len(hashes) \div 2 |->
                    HashPair(hashes[2 * i - 1], hashes[2 * i])]
             padded ==
                IF Len(next_level) % 2 = 1 /\ Len(next_level) > 1
                THEN Append(next_level, next_level[Len(next_level)])
                ELSE next_level
         IN MerkleLoop(padded)
    ELSE hashes

compute_merkle_root(file_entries) ==
    IF file_entries = <<>> THEN sha256_hash_hex(<<>>)
    ELSE LET sorted_entries == SortByPath(file_entries)
             leaves == [i \in 1 .. Len(sorted_entries) |->
                            sha256_hash(canonicalize(sorted_entries[i]))]
             hashes == IF Len(leaves) % 2 = 1
                       THEN Append(leaves, leaves[Len(leaves)])
                       ELSE leaves
         IN hex(MerkleLoop(hashes)[1])

\* the most file entries of a call
MaxEntries == 5

\* {"path": p, "value": n}
FileEntry(p, n) == VObject(<<<<K_path, VString(p)>>, <<K_value, VInt(n)>>>>)

\* entries for the paths "a", "ab", "b", "c" and "d"; a list may hold an
\* entry more than once
FileEntries ==
    {FileEntry(<<97>>, 1), FileEntry(<<97, 98>>, 2), FileEntry(<<98>>, 3),
     FileEntry(<<99>>, 4), FileEntry(<<100>>, 5)}

InitMerkle ==
    /\ fileEntries = <<>>
    /\ merkleRoot = compute_merkle_root(<<>>)
    /\ reducer = NotInUse /\ call = NotInUse /\ fed = NotInUse
    /\ r1 = NotInUse /\ r2 = NotInUse /\ log = NotInUse /\ pos2 = NotInUse
    /\ chain = NotInUse /\ chainResult = NotInUse
    /\ SignNotInUse /\ CanonNotInUse /\ CliNotInUse

\* the caller computes the root of the list extended by one more entry
ComputeExtended ==
    /\ Len(fileEntries) < MaxEntries
    /\ \E e \in FileEntries :
        /\ fileEntries' = Append(fileEntries, e)
        /\ merkleRoot' = compute_merkle_root(fileEntries')
    /\ UNCHANGED <<reducer, call, fed, r1, r2, log, pos2, chain, chainResult,
                   signVars, canonVars, cliVars>>

NextMerkle == ComputeExtended

SpecMerkle == InitMerkle /\ [][NextMerkle]_vars


\* "keys"
K_keys == <<107, 101, 121, 115>>

\* "key_id"
K_key_id == <<107, 101, 121, 95, 105, 100>>

\* "algorithm"
K_algorithm == <<97, 108, 103, 111, 114, 105, 116, 104, 109>>

\* "public_key_b64"
K_public_key_b64 ==
    <<112, 117, 98, 108, 105, 99, 95, 107, 101, 121, 95, 98, 54, 52>>

\* "status"
K_status == <<115, 116, 97, 116, 117, 115>>

\* "sig"
K_sig == <<115, 105, 103>>

\* "actor_key_id"
K_actor_key_id == <<97, 99, 116, 111, 114, 95, 107, 101, 121, 95, 105, 100>>

\* "subject"
K_subject == <<115, 117, 98, 106, 101, 99, 116>>

\* "predicate"
K_predicate == <<112, 114, 101, 100, 105, 99, 97, 116, 101>>

\* "Ed25519"
S_Ed25519 == <<69, 100, 50, 53, 53, 49, 57>>

\* "active"
S_active == <<97, 99, 116, 105, 118, 101>>

\* "rust_actor"
S_rust_actor == <<114, 117, 115, 116, 95, 97, 99, 116, 111, 114>>

\* "2026-01-01T00:00:00+00:00"
S_timestamp ==
    <<50, 48, 50, 54, 45, 48, 49, 45, 48, 49, 84, 48, 48, 58, 48, 48, 58,
    48, 48, 43, 48, 48, 58, 48, 48>>

\* "interop"
S_interop == <<105, 110, 116, 101, 114, 111, 112>>

\* "rust-created"
S_rust_created == <<114, 117, 115, 116, 45, 99, 114, 101, 97, 116, 101, 100>>

\* "second"
S_second == <<115, 101, 99, 111, 110, 100>>

\* "bob"
S_bob == <<98, 111, 98>>
(* ------------------ SpecCli: the cross_impl command line --------------- *)

\* Result<(), String>: Ok(()) or Err with the message's template
CliOk == <<"Ok">>

CliErr(msg) == <<"Err", msg>>

\* the content of a file, or of a line of it, that is no JSON text; a JSON
\* text is held as the Value serde_json::from_str gives for it
InvalidJson == <<"Invalid">>

\* Value::get on a key
Get(v, k) == IF Tag(v) = "Object" THEN MapEntriesGet(v[2], k) ELSE Absent

\* .and_then(|v| v.as_str()) on the result of Value::get
AsString(v) == IF v # Absent /\ Tag(v) = "String" THEN Some(v[2]) ELSE None

\* Map::remove
MapEntriesRemove(m, k) ==
    LET keep == {i \in 1 .. Len(m) : m[i][1] # k}
        nth(n) == CHOOSE i \in keep : Cardinality({j \in keep : j < i}) = n - 1
    IN [n \in 1 .. Cardinality(keep) |-> m[nth(n)]]

\* canonical_bytes
canonical_bytes(v) == canonicalize(v)

\* key_id_from_public
key_id_from_public(public_key_bytes) ==
    S_bp1 \o HashPrefixHex(sha256_hash(public_key_bytes))

\* the for loop over keys.json's entries: the key map, or the error of the
\* first entry that has one.  A 32-byte key is one number of the model; the
\* empty byte string is the only other decoded key.
RECURSIVE BuildKeyMap(_, _)
BuildKeyMap(key_entries, key_map) ==
    IF key_entries = <<>> THEN [err |-> None, map |-> key_map]
    ELSE LET entry == Head(key_entries)
             kid == AsString(Get(entry, K_key_id))
             pub_b64 == AsString(Get(entry, K_public_key_b64))
         IN IF kid # None /\ pub_b64 # None
            THEN IF pub_b64[1][1] # "base64"
                 THEN [err |-> Some(CliErr("invalid base64 pubkey for {k}")),
                       map |-> key_map]
                 ELSE IF Len(pub_b64[1][2]) # 1
                 THEN [err |-> Some(CliErr("public key {k} must be 32 bytes")),
                       map |-> key_map]
                 ELSE BuildKeyMap(Tail(key_entries),
                                  MapInsert(key_map, kid[1], pub_b64[1][2]))
            ELSE BuildKeyMap(Tail(key_entries), key_map)

\* one iteration of the loop over the lines of events.ndjson, up to the
\* insert into last_by_actor: the error it returns, if any
VaultStep(line, key_map, last_by_actor) ==
    IF line = InvalidJson
    THEN Some(CliErr("invalid event JSON at line {}"))
    ELSE
    LET actor == AsString(Get(line, K_actor))
        event_id == AsString(Get(line, K_event_id))
        prev == Get(line, K_prev_event_hash)
        sig_b64 == AsString(Get(line, K_sig))
        kid == AsString(Get(line, K_actor_key_id))
        chainErr ==
            IF actor[1] \notin DOMAIN last_by_actor
            THEN IF prev # Absent /\ prev # VNull
                 THEN Some(CliErr("broken chain for actor {actor}: first event must have null prev_event_hash"))
                 ELSE None
            ELSE IF UnwrapOr(AsString(prev), <<>>) # last_by_actor[actor[1]]
                 THEN Some(CliErr("broken chain for actor {actor}: expected prev {}, got {}"))
                 ELSE None
        sigErr ==
            IF sig_b64 # None /\ kid # None
            THEN IF kid[1] \notin DOMAIN key_map
                 THEN Some(CliErr("event {event_id} references unknown key_id {kid}"))
                 ELSE LET signing_obj == VObject(MapEntriesRemove(line[2], K_sig))
                          hash == sha256_hash(canonical_bytes(signing_obj))
                      IN IF sig_b64[1][1] # "base64"
                         THEN Some(CliErr("invalid signature b64 on event {event_id}"))
                         ELSE IF ByteLen(sig_b64[1][2]) # 64
                         THEN Some(CliErr("invalid signature on event {event_id}"))
                         ELSE IF ~Ed25519Verify(key_map[kid[1]], hash, sig_b64[1][2])
                         THEN Some(CliErr("signature verification failed on {event_id}"))
                         ELSE None
            ELSE None
    IN IF actor = None THEN Some(CliErr("event line {} missing actor"))
       ELSE IF event_id = None THEN Some(CliErr("event line {} missing event_id"))
       ELSE IF chainErr # None THEN chainErr
       ELSE sigErr

RECURSIVE VaultWalk(_, _, _)

\* the end of an iteration: the error leaves the loop, and otherwise the
\* event's id becomes the last one of its actor
VaultAfter(lines, key_map, last_by_actor, err) ==
    IF err # None THEN err[1]
    ELSE VaultWalk(Tail(lines), key_map,
                   MapInsert(last_by_actor, Get(Head(lines), K_actor)[2],
                             Get(Head(lines), K_event_id)[2]))

VaultWalk(lines, key_map, last_by_actor) ==
    IF lines = <<>> THEN CliOk
    ELSE VaultAfter(lines, key_map, last_by_actor,
                    VaultStep(Head(lines), key_map, last_by_actor))

\* verify_vault on the files of a vault: keys is the content of
\* identity/keys.json and events the lines of events/events.ndjson, each
\* None when the file cannot be read
verify_vault(files) ==
    IF files.keys = None THEN CliErr("failed to read keys.json")
    ELSE IF files.keys[1] = InvalidJson THEN CliErr("invalid keys.json")
    ELSE LET arr == Get(files.keys[1], K_keys)
             key_entries == IF arr # Absent /\ Tag(arr) = "Array" THEN arr[2] ELSE <<>>
             built == BuildKeyMap(key_entries, EmptyMap)
         IN IF built.err # None THEN built.err[1]
            ELSE IF files.events = None THEN CliErr("failed to read events.ndjson")
            ELSE VaultWalk(files.events[1], built.map, EmptyMap)

\* the end of sign_event_json_internal, from the parsed event on
SignParsed(seed, parsed) ==
    IF parsed = None THEN CliErr("invalid event json")
    ELSE <<"Ok", Base64(Ed25519Sign(seed, sha256_hash(canonical_bytes(parsed[1]))))>>

\* sign_event_json_internal: the Base64 signature, or the error.  The
\* private key argument is Base64 of a byte string; a seed is 32 bytes, the
\* byte string "short" is not.
sign_event_json_internal(private_key_b64, event_json) ==
    IF private_key_b64[1] # "base64" THEN CliErr("invalid private key b64")
    ELSE IF private_key_b64[2] \notin Seeds
    THEN CliErr("private key must decode to 32 bytes")
    ELSE SignParsed(private_key_b64[2], from_slice(event_json))

\* let seed = [7u8; 32]
CreateVaultSeed == "seed_a"

\* the keys.json that registers public key pk under key id kid
KeysJson(kid, pk_b64) ==
    VObject(<<<<K_keys, VArray(<<VObject(
        <<<<K_key_id, VString(kid)>>, <<K_algorithm, VString(S_Ed25519)>>,
          <<K_public_key_b64, VString(pk_b64)>>,
          <<K_status, VString(S_active)>>>>)>>)>>>>)

\* an event as create_vault builds it before event_id is set
EventBody(actor, prev, v) ==
    <<<<K_type, VString(S_OBSERVATION)>>, <<K_actor, VString(actor)>>,
      <<K_prev_event_hash, prev>>, <<K_timestamp_utc, VString(S_timestamp)>>,
      <<K_payload, VObject(<<<<K_subject, VString(S_interop)>>,
                             <<K_predicate, VString(K_status)>>,
                             <<K_value, VString(v)>>>>)>>>>

\* event["event_id"] = "evt_" and the first hex digits of the SHA-256 of the
\* canonical event
WithEventId(event) ==
    MapEntriesInsert(event, K_event_id,
        VString(S_evt \o HashPrefixHex(sha256_hash(canonical_bytes(VObject(event))))))

\* event["actor_key_id"] = key_id
WithKeyId(event, seed) ==
    MapEntriesInsert(event, K_actor_key_id,
        VString(key_id_from_public(public_key(KeyPair(seed)))))

\* event["sig"] = the signature of the event.  serde_json::to_string gives
\* some JSON text of the event; the model takes the canonical one.
WithSig(event, seed) ==
    VObject(MapEntriesInsert(event, K_sig,
        VString(sign_event_json_internal(Base64(seed), canonicalize(VObject(event)))[2])))

\* the steps of create_vault from event_id on
SignedEvent(body, seed) == WithSig(WithKeyId(WithEventId(body), seed), seed)

\* create_vault: the files it writes
create_vault ==
    LET public == public_key(KeyPair(CreateVaultSeed))
    IN [keys |-> Some(KeysJson(key_id_from_public(public), Base64(public))),
        events |-> Some(<<SignedEvent(EventBody(S_rust_actor, VNull, S_rust_created),
                                      CreateVaultSeed)>>)]

\* arg_value: the argument that follows the first occurrence of name
arg_value(args, name) ==
    IF \E i \in 1 .. (Len(args) - 1) : args[i] = name
    THEN Some(args[(CHOOSE i \in 1 .. (Len(args) - 1) :
                        /\ args[i] = name
                        /\ \A j \in 1 .. (i - 1) : args[j] # name) + 1])
    ELSE None

\* the characters of a command line argument that is given as JSON
ArgText(arg) ==
    CASE arg = "null" -> <<110, 117, 108, 108>>
      [] arg = "{\"b\":1,\"a\":2}" -> <<123, 34, 98, 34, 58, 49, 44, 34, 97, 34, 58, 50, 125>>
      [] OTHER -> <<123>>

\* the byte string a --private-key-b64 argument decodes to
ArgKey(arg) ==
    CASE arg = "c2VlZF9h" -> Base64("seed_a")
      [] arg = "c2hvcnQ=" -> Base64("short")
      [] OTHER -> <<"not_base64">>

\* the files under a path: the vault is at "v", nothing is elsewhere
FilesAt(path, files) == IF path = "v" THEN files ELSE [keys |-> None, events |-> None]

\* let sig = ..?; println!("{}", sig); Ok(())
Printed(sig) == IF sig[1] = "Err" THEN sig ELSE CliOk

\* the match on cmd in main: the result, and the files of the vault after it
RunCommand(args, files) ==
    LET cmd == args[2]
    IN CASE cmd = "canonical-sha256" ->
                LET input == arg_value(args, "--input-json")
                IN [result |-> IF input = None THEN CliErr("--input-json is required")
                               ELSE IF from_slice(ArgText(input[1])) = None
                               THEN CliErr("invalid json")
                               ELSE CliOk,
                    files |-> files]
         [] cmd = "verify-vault" ->
                LET path == arg_value(args, "--vault")
                IN [result |-> IF path = None THEN CliErr("--vault is required")
                               ELSE verify_vault(FilesAt(path[1], files)),
                    files |-> files]
         [] cmd = "create-vault" ->
                LET path == arg_value(args, "--vault")
                IN IF path = None
                   THEN [result |-> CliErr("--vault is required"), files |-> files]
                   ELSE [result |-> CliOk,
                         files |-> IF path[1] = "v" THEN create_vault ELSE files]
         [] cmd = "sign-event-json" ->
                LET private_key == arg_value(args, "--private-key-b64")
                    event_json == arg_value(args, "--event-json")
                IN [result |->
                        IF private_key = None THEN CliErr("--private-key-b64 is required")
                        ELSE IF event_json = None THEN CliErr("--event-json is required")
                        ELSE Printed(sign_event_json_internal(
                                        ArgKey(private_key[1]), ArgText(event_json[1]))),
                    files |-> files]
         [] OTHER -> [result |-> CliErr("unknown command: {cmd}"), files |-> files]

\* the end of main: exit(1) on an error, and 0 otherwise
ExitOf(run) ==
    [exit |-> IF run.result[1] = "Err" THEN 1 ELSE 0, files |-> run.files]

\* main: the exit status of the process and the files of the vault after it
main(args, files) ==
    IF Len(args) < 2 THEN [exit |-> 2, files |-> files]
    ELSE ExitOf(RunCommand(args, files))

\* the command lines given to the process; the first argument is its name
CommandLines ==
    {<<"cross_impl">>,
     <<"cross_impl", "bogus">>,
     <<"cross_impl", "canonical-sha256">>,
     <<"cross_impl", "canonical-sha256", "--input-json", "null">>,
     <<"cross_impl", "canonical-sha256", "--input-json", "{\"b\":1,\"a\":2}">>,
     <<"cross_impl", "canonical-sha256", "--input-json", "{">>,
     <<"cross_impl", "verify-vault">>,
     <<"cross_impl", "verify-vault", "--vault">>,
     <<"cross_impl", "verify-vault", "--vault", "v">>,
     <<"cross_impl", "verify-vault", "--vault", "elsewhere">>,
     <<"cross_impl", "create-vault">>,
     <<"cross_impl", "create-vault", "--vault", "v">>,
     <<"cross_impl", "sign-event-json">>,
     <<"cross_impl", "sign-event-json", "--private-key-b64", "c2VlZF9h">>,
     <<"cross_impl", "sign-event-json", "--private-key-b64", "c2VlZF9h",
       "--event-json", "null">>,
     <<"cross_impl", "sign-event-json", "--private-key-b64", "c2hvcnQ=",
       "--event-json", "null">>,
     <<"cross_impl", "sign-event-json", "--private-key-b64", "!",
       "--event-json", "null">>,
     <<"cross_impl", "sign-event-json", "--private-key-b64", "c2VlZF9h",
       "--event-json", "{">>}

\* the event create_vault writes
GenesisEvent == create_vault.events[1][1]

\* the entries of an event value with one entry replaced or removed
WithEntry(e, k, v) == VObject(MapEntriesInsert(e[2], k, v))

WithoutEntry(e, k) == VObject(MapEntriesRemove(e[2], k))

\* lines of events.ndjson, given the genesis event: that event; signed
\* events of the same actor that follow it, break the chain, or are a
\* second genesis; a signed genesis of another actor; the genesis event
\* with another payload under the old signature, with and without its
\* actor_key_id; the genesis event unsigned; one with a signature that is no
\* Base64; one without actor; and a line that is no JSON
LinesAfter(genesis) ==
    {genesis,
     WithEntry(genesis, K_payload, VNull),
     WithoutEntry(WithEntry(genesis, K_payload, VNull), K_actor_key_id),
     WithoutEntry(WithoutEntry(genesis, K_sig), K_actor_key_id),
     WithEntry(genesis, K_sig, VString(<<"not_base64">>)),
     WithoutEntry(genesis, K_actor),
     InvalidJson}
    \cup {SignedEvent(EventBody(b[1], b[2], S_second), CreateVaultSeed) :
            b \in {<<S_rust_actor, Get(genesis, K_event_id)>>,
                   <<S_rust_actor, VString(S_evt_q)>>,
                   <<S_rust_actor, VNull>>,
                   <<S_bob, VNull>>}}

VaultLines == LinesAfter(GenesisEvent)

\* the most lines of an events.ndjson
MaxLines == 2

\* contents of identity/keys.json: unreadable, no JSON, no keys, and the
\* key id of create_vault with its key, with another key, with a key that
\* is no Base64 and with one that is too short
KeysFiles ==
    {None, Some(InvalidJson), Some(VObject(<<>>))}
    \cup {Some(KeysJson(key_id_from_public(public_key(KeyPair(CreateVaultSeed))), pk)) :
            pk \in {Base64(public_key(KeyPair(CreateVaultSeed))),
                    Base64(public_key(KeyPair("seed_b"))),
                    <<"not_base64">>, Base64(<<>>)}}

EventsFiles ==
    {None} \cup {Some(lines) : lines \in UNION {[1 .. n -> VaultLines] : n \in 0 .. MaxLines}}

InitCli ==
    /\ argv = <<>>
    /\ exitCode = None
    /\ vaultFiles \in [keys : KeysFiles, events : EventsFiles]
    /\ reducer = NotInUse /\ call = NotInUse /\ fed = NotInUse
    /\ r1 = NotInUse /\ r2 = NotInUse /\ log = NotInUse /\ pos2 = NotInUse
    /\ chain = NotInUse /\ chainResult = NotInUse
    /\ SignNotInUse /\ CanonNotInUse /\ MerkleNotInUse

\* one run of the cross_impl process
RunCrossImpl ==
    /\ \E args \in CommandLines :
        \E run \in {main(args, vaultFiles)} :
            /\ argv' = args
            /\ exitCode' = Some(run.exit)
            /\ vaultFiles' = run.files
    /\ UNCHANGED <<reducer, call, fed, r1, r2, log, pos2, chain, chainResult,
                   signVars, canonVars, merkleVars>>

NextCli == RunCrossImpl

SpecCli == InitCli /\ [][NextCli]_vars


(* ------- SpecTwin: two reducers, separate pasts, one future ----------- *)

\* how many events each instance takes on its own
MaxDiverge == 2

\* the events either instance may be fed as the event with id `id`
TwinTemplates(id) ==
    << Ev("OBSERVATION", id, Fact("a", "c", JStr("open"), JNum(90))),
       Ev("OBSERVATION", id, Fact("a", "c", JStr("closed"), JNum(90))),
       Ev("ATTESTATION", id, Fact("a", "c", JStr("open"), Absent)),
       Ev("RETRACTION", id, Fact("a", "c", Absent, Absent)),
       Ev("CUSTOM", id, Absent) >>

\* what a reader of the two instances can compare: state, that is
\* canonical, local, contested, archived and metadata with its state_hash
VisibleEqual(a, b) == a.state = b.state

InitTwin ==
    /\ \E t \in ThresholdArgs : r1 = new(t) /\ r2 = new(t)
    /\ log = <<>>
    /\ reducer = NotInUse /\ call = NotInUse /\ fed = NotInUse
    /\ pos2 = NotInUse
    /\ chain = NotInUse /\ chainResult = NotInUse
    /\ SignNotInUse /\ CanonNotInUse /\ MerkleNotInUse /\ CliNotInUse

\* each instance is fed an event of its own through apply_event
TwinApplyOwn ==
    /\ log = <<>>
    /\ r1.state.metadata.event_count < MaxDiverge
    /\ \E i, j \in DOMAIN TwinTemplates("") :
        LET id == EventIds[r1.state.metadata.event_count + 1]
        IN /\ r1' = apply_event(r1, TwinTemplates(id)[i])
           /\ r2' = apply_event(r2, TwinTemplates(id)[j])
    /\ UNCHANGED <<log, pos2, reducer, call, fed, chain, chainResult,
                   signVars, canonVars, merkleVars, cliVars>>

\* both instances are fed the same event through apply_event; the first
\* such event is fed when their states are equal
TwinApplySame ==
    /\ log = <<>> => VisibleEqual(r1, r2)
    /\ r1.state.metadata.event_count < MaxEvents
    /\ \E i \in DOMAIN TwinTemplates("") :
        LET event == TwinTemplates(EventIds[r1.state.metadata.event_count + 1])[i]
        IN /\ r1' = apply_event(r1, event)
           /\ r2' = apply_event(r2, event)
           /\ log' = Append(log, event)
    /\ UNCHANGED <<pos2, reducer, call, fed, chain, chainResult,
                   signVars, canonVars, merkleVars, cliVars>>

NextTwin == TwinApplyOwn \/ TwinApplySame

SpecTwin == InitTwin /\ [][NextTwin]_vars


(* ====================================================================== *)
(* Properties                                                             *)
(* ====================================================================== *)

(* ---------- how the properties read an event and a step --------------- *)

\* e is a JSON object whose type is one of `types` and whose payload is an
\* object holding a string subject and a string predicate
IsFactEvent(e, types) ==
    /\ IsObj(e)
    /\ IsStr(e[2].type)
    /\ e[2].type[2] \in types
    /\ IsObj(e[2].payload)
    /\ IsStr(e[2].payload[2].subject)
    /\ IsStr(e[2].payload[2].predicate)

FactKey(e) == e[2].payload[2].subject[2] \o ":" \o e[2].payload[2].predicate[2]

\* payload.value, null when the payload holds none
FactValue(e) ==
    IF e[2].payload[2].value = Absent THEN JNull ELSE e[2].payload[2].value

\* payload.confidence, or the default of the event's type
FactConfidence(e) ==
    IF IsNum(e[2].payload[2].confidence) THEN e[2].payload[2].confidence[2]
    ELSE IF e[2].type[2] = "ASSERTION" THEN DEFAULT_ASSERTION_CONFIDENCE
    ELSE DEFAULT_OBSERVATION_CONFIDENCE

\* payload.timestamp, else payload.timestamp_utc, as a JSON value
FactTimestamp(e) ==
    IF e[2].payload[2].timestamp # Absent
    THEN (IF IsStr(e[2].payload[2].timestamp) THEN e[2].payload[2].timestamp ELSE JNull)
    ELSE IF IsStr(e[2].payload[2].timestamp_utc) THEN e[2].payload[2].timestamp_utc
    ELSE JNull

\* the id the event carries (event_id, else id); the reducer's placeholder
\* "unknown_event" stands for an event that carries none
EventIdOf(e) ==
    IF IsStr(e[2].event_id) THEN e[2].event_id[2]
    ELSE IF e[2].event_id = Absent /\ IsStr(e[2].id) THEN e[2].id[2]
    ELSE "unknown_event"

\* the actor the event names; the reducer's placeholder "unknown" otherwise
EventActorOf(e) == IF IsStr(e[2].actor) THEN e[2].actor[2] ELSE "unknown"

ThresholdOf(r) == r.state.metadata.reducer.conflict_confidence_threshold

\* this step is one call that applied exactly one event (call'.events[1])
AppliesOne == fed' = fed + 1 /\ Len(call'.events) = 1

\* the last call applied exactly one event
AppliedOne == fed >= 1 /\ Len(call.events) = 1

\* the conflicts-with-canonical rule fires for event e in reducer r
CanonicalRuleFires(r, e) ==
    /\ FactKey(e) \in DOMAIN r.state.canonical
    /\ r.state.canonical[FactKey(e)].value # FactValue(e)
    /\ FactConfidence(e) >= ThresholdOf(r)

(* ------------------------------- C1 ----------------------------------- *)

\* C1: two reducers constructed with the same threshold that have consumed
\* the same event sequence (one through apply_event, the other through
\* apply_events in batches of any size) hold identical canonical, local,
\* contested, archived and metadata, state_hash included; with the empty
\* sequence, two fresh constructions have the same state_hash.
C1_Determinism ==
    pos2 = Len(log) =>
        /\ r1.state.canonical = r2.state.canonical
        /\ r1.state.local = r2.state.local
        /\ r1.state.contested = r2.state.contested
        /\ r1.state.archived = r2.state.archived
        /\ r1.state.metadata = r2.state.metadata
        /\ r1.state.metadata.state_hash = r2.state.metadata.state_hash
        /\ r1.state.metadata.state_hash # None

\* both instances consumed the same two or more events and a key is contested
C1_Witness ==
    /\ Len(log) >= 2
    /\ pos2 = Len(log)
    /\ r1.state.metadata.event_count >= 2
    /\ DOMAIN r1.state.contested # {}
    /\ r1.state.metadata.state_hash = r2.state.metadata.state_hash

(* ------------------------------- C2 ----------------------------------- *)

\* C2: when an OBSERVATION or ASSERTION for key k is applied while local[k]
\* holds a different value, max(existing confidence, new confidence) reaches
\* the threshold and the conflicts-with-canonical rule does not fire, then
\* afterwards contested[k] has status AWAITING_RESOLUTION and reason
\* conflicts_with_local, and local does not contain k.
C2_ConflictWithLocal ==
    [][ (/\ AppliesOne
         /\ IsFactEvent(call'.events[1], {"OBSERVATION", "ASSERTION"})
         /\ FactKey(call'.events[1]) \in DOMAIN reducer.state.local
         /\ reducer.state.local[FactKey(call'.events[1])].value
                # FactValue(call'.events[1])
         /\ Max(reducer.state.local[FactKey(call'.events[1])].confidence,
                FactConfidence(call'.events[1])) >= ThresholdOf(reducer)
         /\ ~CanonicalRuleFires(reducer, call'.events[1]))
        =>
        (/\ FactKey(call'.events[1]) \in DOMAIN reducer'.state.contested
         /\ reducer'.state.contested[FactKey(call'.events[1])].status
                = "AWAITING_RESOLUTION"
         /\ reducer'.state.contested[FactKey(call'.events[1])].reason
                = "conflicts_with_local"
         /\ FactKey(call'.events[1]) \notin DOMAIN reducer'.state.local) ]_vars

\* the last event was an observation that mark_contested filed under
\* conflicts_with_local: the contested entry counts it among its evidence
C2_Witness ==
    /\ AppliedOne
    /\ IsFactEvent(call.events[1], {"OBSERVATION", "ASSERTION"})
    /\ FactKey(call.events[1]) \in DOMAIN reducer.state.contested
    /\ LET k == FactKey(call.events[1])
           c == reducer.state.contested[k]
       IN /\ c.reason = "conflicts_with_local"
          /\ c.total_evidence_count = Len(reducer.evidence[k])
          /\ reducer.evidence[k][Len(reducer.evidence[k])].event_id
                = EventIdOf(call.events[1])
          /\ k \notin DOMAIN reducer.state.local

(* ------------------------------- C3 ----------------------------------- *)

\* C3: applying an ATTESTATION whose payload has subject and predicate (key
\* k), in any reducer state, leaves canonical[k] holding the attested value
\* with attestation_event_id equal to the event's id, and leaves k absent
\* from both local and contested.
C3_AttestationResolves ==
    [][ (/\ AppliesOne
         /\ IsFactEvent(call'.events[1], {"ATTESTATION"}))
        =>
        (/\ FactKey(call'.events[1]) \in DOMAIN reducer'.state.canonical
         /\ reducer'.state.canonical[FactKey(call'.events[1])].value
                = FactValue(call'.events[1])
         /\ reducer'.state.canonical[FactKey(call'.events[1])].attestation_event_id
                = EventIdOf(call'.events[1])
         /\ FactKey(call'.events[1]) \notin DOMAIN reducer'.state.local
         /\ FactKey(call'.events[1]) \notin DOMAIN reducer'.state.contested) ]_vars

\* the last event attested a key whose ledger holds two differing values at
\* or above the threshold (the key was contested when the attestation came)
C3_Witness ==
    /\ AppliedOne
    /\ IsFactEvent(call.events[1], {"ATTESTATION"})
    /\ LET k == FactKey(call.events[1])
       IN /\ k \in DOMAIN reducer.state.canonical
          /\ reducer.state.canonical[k].attestation_event_id = EventIdOf(call.events[1])
          /\ k \in DOMAIN reducer.evidence
          /\ Len(reducer.evidence[k]) = 2
          /\ reducer.evidence[k][1].value # reducer.evidence[k][2].value
          /\ reducer.evidence[k][1].confidence >= ThresholdOf(reducer)
          /\ reducer.evidence[k][2].confidence >= ThresholdOf(reducer)
          /\ k \notin DOMAIN reducer.state.contested
          /\ k \notin DOMAIN reducer.state.local
          /\ k \notin DOMAIN reducer.state.archived

(* ------------------------------- C4 ----------------------------------- *)

\* entry with the fields of extra added
Extended(entry, extra) ==
    [f \in (DOMAIN entry) \cup (DOMAIN extra) |->
        IF f \in DOMAIN extra THEN extra[f] ELSE entry[f]]

\* archived[k], the empty list when archived has no k
ArchivedOf(r, k) == IF k \in DOMAIN r.state.archived THEN r.state.archived[k] ELSE <<>>

\* C4: applying a RETRACTION for key k while canonical[k] exists removes k
\* from canonical and appends exactly one entry to the end of archived[k]:
\* the previous canonical entry extended with superseded_by = the
\* retraction's event id and retracted = true; k is absent from local and
\* contested afterwards.
C4_RetractionArchives ==
    [][ (/\ AppliesOne
         /\ IsFactEvent(call'.events[1], {"RETRACTION"})
         /\ FactKey(call'.events[1]) \in DOMAIN reducer.state.canonical)
        =>
        (/\ FactKey(call'.events[1]) \notin DOMAIN reducer'.state.canonical
         /\ ArchivedOf(reducer', FactKey(call'.events[1])) =
                Append(ArchivedOf(reducer, FactKey(call'.events[1])),
                       Extended(reducer.state.canonical[FactKey(call'.events[1])],
                                [superseded_by |-> EventIdOf(call'.events[1]),
                                 retracted |-> TRUE]))
         /\ FactKey(call'.events[1]) \notin DOMAIN reducer'.state.local
         /\ FactKey(call'.events[1]) \notin DOMAIN reducer'.state.contested) ]_vars

\* the last event retracted a canonical fact of a key that had been
\* superseded before: its snapshot is the second entry of archived[k]
C4_Witness ==
    /\ AppliedOne
    /\ IsFactEvent(call.events[1], {"RETRACTION"})
    /\ LET k == FactKey(call.events[1])
           a == ArchivedOf(reducer, k)
       IN /\ Len(a) = 2
          /\ a[2].superseded_by = EventIdOf(call.events[1])
          /\ "retracted" \in DOMAIN a[2]
          /\ "retracted" \notin DOMAIN a[1]
          /\ k \notin DOMAIN reducer.state.canonical

(* ------------------------------- C5 ----------------------------------- *)

\* C5: applying an OBSERVATION or ASSERTION with subject and predicate for a
\* key k that is in neither canonical nor local writes local[k] with the
\* event's value, its confidence (or the type's default), provenance = the
\* event's id, the event's actor and timestamp; canonical, contested and
\* archived are unchanged.
C5_ObservationLandsInLocal ==
    [][ (/\ AppliesOne
         /\ IsFactEvent(call'.events[1], {"OBSERVATION", "ASSERTION"})
         /\ FactKey(call'.events[1]) \notin DOMAIN reducer.state.canonical
         /\ FactKey(call'.events[1]) \notin DOMAIN reducer.state.local)
        =>
        (/\ FactKey(call'.events[1]) \in DOMAIN reducer'.state.local
         /\ reducer'.state.local[FactKey(call'.events[1])].value
                = FactValue(call'.events[1])
         /\ reducer'.state.local[FactKey(call'.events[1])].confidence
                = FactConfidence(call'.events[1])
         /\ reducer'.state.local[FactKey(call'.events[1])].provenance
                = EventIdOf(call'.events[1])
         /\ reducer'.state.local[FactKey(call'.events[1])].actor
                = EventActorOf(call'.events[1])
         /\ reducer'.state.local[FactKey(call'.events[1])].timestamp
                = FactTimestamp(call'.events[1])
         /\ reducer'.state.canonical = reducer.state.canonical
         /\ reducer'.state.contested = reducer.state.contested
         /\ reducer'.state.archived = reducer.state.archived) ]_vars

\* the last event was the first evidence of a never attested key, sent with
\* no confidence of its own, and local holds it with the type's default
C5_Witness ==
    /\ AppliedOne
    /\ IsFactEvent(call.events[1], {"OBSERVATION", "ASSERTION"})
    /\ ~IsNum(call.events[1][2].payload[2].confidence)
    /\ LET k == FactKey(call.events[1])
       IN /\ k \in DOMAIN reducer.state.local
          /\ reducer.state.local[k].provenance = EventIdOf(call.events[1])
          /\ reducer.state.local[k].confidence = FactConfidence(call.events[1])
          /\ Len(reducer.evidence[k]) = 1
          /\ k \notin DOMAIN reducer.state.canonical
          /\ k \notin DOMAIN reducer.state.archived

(* ------------------------------- C6 ----------------------------------- *)

\* C6: after n events have been applied to a fresh reducer through
\* apply_event and/or apply_events, metadata.event_count equals n, whatever
\* the events' type or shape.
C6_EventCountIsEventsFed == reducer.state.metadata.event_count = fed

(* ------------------------------- C7 ----------------------------------- *)

EarlierSame(c, i) == {j \in 1 .. (i - 1) : c[j].actor = c[i].actor}

\* the position of the actor's most recent earlier event
LastEarlier(c, i) ==
    CHOOSE j \in EarlierSame(c, i) : \A m \in EarlierSame(c, i) : m <= j

\* event i obeys the chain rule: null prev_event_hash on the actor's first
\* event, the id of the actor's immediately preceding event otherwise
FollowsRule(c, i) ==
    IF EarlierSame(c, i) = {}
    THEN c[i].prev_event_hash = None
    ELSE c[i].prev_event_hash = Some(c[LastEarlier(c, i)].event_id)

\* event i has a non-null prev_event_hash that references nothing or the
\* wrong event
BrokenLinkAt(c, i) ==
    /\ c[i].prev_event_hash # None
    /\ \/ EarlierSame(c, i) = {}
       \/ c[i].prev_event_hash[1] # c[LastEarlier(c, i)].event_id

\* event i has a null prev_event_hash though its actor has an earlier event
SecondGenesisAt(c, i) ==
    /\ c[i].prev_event_hash = None
    /\ EarlierSame(c, i) # {}

IsChainValidationError(res) == res[1] = "Err" /\ res[2] = "ChainValidation"

(* ------------------------------- C8 ----------------------------------- *)

\* C8: verify_causal_chain returns Ok for every sequence in which each
\* actor's first event has prev_event_hash = null and each later event of
\* that actor has prev_event_hash equal to the event_id of the actor's
\* immediately preceding event, for any length and any interleaving of
\* several actors' events.
C8_ValidChainAccepted ==
    (\A i \in DOMAIN chain : FollowsRule(chain, i)) => chainResult = ChainOk

\* an accepted chain of three events in which two actors interleave and one
\* event links back to its predecessor
C8_Witness ==
    /\ Len(chain) >= 3
    /\ \A i \in DOMAIN chain : FollowsRule(chain, i)
    /\ chain[1].actor # chain[2].actor
    /\ chain[3].prev_event_hash # None
    /\ chainResult = ChainOk

(* ------------------------------- C9 ----------------------------------- *)

\* C9: verify_causal_chain returns a ChainValidation error whenever some
\* event has a non-null prev_event_hash and either its actor has no earlier
\* event in the sequence or prev_event_hash differs from the event_id of
\* that actor's most recent earlier event.
C9_BrokenLinkRejected ==
    (\E i \in DOMAIN chain : BrokenLinkAt(chain, i))
        => IsChainValidationError(chainResult)

\* a chain whose only fault is a later event that names the wrong
\* predecessor, rejected as a broken chain
C9_Witness ==
    /\ \E i \in DOMAIN chain :
        /\ BrokenLinkAt(chain, i)
        /\ EarlierSame(chain, i) # {}
        /\ \A j \in (DOMAIN chain) \ {i} : FollowsRule(chain, j)
    /\ IsChainValidationError(chainResult)
    /\ chainResult[3] = "Broken chain for actor {}: expected {}, got {}"

(* ------------------------------- C10 ---------------------------------- *)

\* C10 as stated: verify_causal_chain returns the ChainValidation "multiple
\* genesis" error whenever an event with absent/null prev_event_hash appears
\* for an actor that already has an earlier event in the sequence.
C10_MultipleGenesisAlwaysReported ==
    (\E i \in DOMAIN chain : SecondGenesisAt(chain, i))
        => /\ IsChainValidationError(chainResult)
           /\ chainResult[3] = "Actor {} has multiple genesis events"

\* C10 amended: whenever an event with absent/null prev_event_hash appears
\* for an actor that already has an earlier event in the sequence,
\* verify_causal_chain returns a ChainValidation error; it is the "multiple
\* genesis" error of that actor when every event before it obeys the chain
\* rule (the walk stops at the first offending event and reports that one).
C10_MultipleGenesisRejected ==
    \A i \in DOMAIN chain :
        SecondGenesisAt(chain, i) =>
            /\ IsChainValidationError(chainResult)
            /\ (\A j \in 1 .. (i - 1) : FollowsRule(chain, j)) =>
                    chainResult = ChainValidation(
                        "Actor {} has multiple genesis events", <<chain[i].actor>>)

\* two null-prev events of one actor with another actor's genesis between
\* them, rejected as multiple genesis
C10_Witness ==
    /\ Len(chain) >= 3
    /\ SecondGenesisAt(chain, 3)
    /\ FollowsRule(chain, 1)
    /\ FollowsRule(chain, 2)
    /\ chain[2].actor # chain[1].actor
    /\ chainResult = ChainValidation(
            "Actor {} has multiple genesis events", <<chain[3].actor>>)

(* --------------------------- signing envelope -------------------------- *)

Verified == verification # None

\* C11: sign/verify round trip.  Whatever the seed, type, prev_event_hash,
\* timestamp and payload, the event that create_event_full returned, handed
\* unchanged to verify_event_signature with the public key of the seed,
\* gives Ok(true).
C11_SignVerifyRoundTrip ==
    (Verified /\ presented = original) => verification = Some(OkTrue)

\* an event with prev_event_hash, timestamp and an object payload was
\* created and verified unchanged
C11_Witness ==
    /\ Verified /\ presented = original
    /\ original.prev_event_hash # None /\ original.timestamp_utc # None
    /\ Tag(original.payload) = "Object"
    /\ original.signature # None

SigningBytes(e) == canonicalize(signing_payload(e))

C13_EventIdPure ==
    /\ original.event_id = derive_event_id(original)
    /\ (\A f \in ContentFields \ {"event_id"} : presented[f] = original[f])
            => derive_event_id(presented) = derive_event_id(original)

\* an event that differs from the created one in event_id and in signature
C13_Witness ==
    /\ presented.event_id # original.event_id
    /\ presented.signature # original.signature
    /\ \A f \in ContentFields \ {"event_id"} : presented[f] = original[f]
    /\ derive_event_id(presented) = original.event_id

(* ---------------------------- canonical JSON --------------------------- *)

\* the maps that hold the entries of m, in every order
Reorderings(m) ==
    {[i \in 1 .. Len(m) |-> m[order[i]]] :
        order \in {o \in [1 .. Len(m) -> 1 .. Len(m)] :
                        \A i, j \in 1 .. Len(m) : i # j => o[i] # o[j]}}

\* C14: canonicalization is idempotent under re-parse:
\* canonicalize(parse(canonicalize(x))) = canonicalize(x); and two objects
\* that hold the same key/value pairs, inserted in different orders, have
\* the same canonical bytes and the same canonical hash.
C14_IdempotentUnderReparse ==
    /\ reparsed # None => reparsed = Some(<<"Ok", jsonText[1]>>)
    /\ (jsonText # None /\ Tag(jsonValue) = "Object") =>
            \A m \in Reorderings(jsonValue[2]) :
                /\ canonicalize(VObject(m)) = jsonText[1]
                /\ canonical_hash(VObject(m)) = canonical_hash(jsonValue)

\* an object of two keys inserted in descending order, whose canonical text
\* was parsed and canonicalized again
C14_Witness ==
    /\ reparsed # None
    /\ Tag(jsonValue) = "Object" /\ Len(jsonValue[2]) = 2
    /\ StrLess(jsonValue[2][2][1], jsonValue[2][1][1])

\* the UTF-16 code units of a scalar value
Utf16(c) ==
    IF c < 65536 THEN <<c>>
    ELSE <<55296 + ((c - 65536) \div 1024), 56320 + ((c - 65536) % 1024)>>

\* str::encode_utf16
encode_utf16(s) == Flatten([i \in 1 .. Len(s) |-> Utf16(s[i])])

\* the keys of the object that a canonical text holds, in the order of the
\* text
KeysInOutput(bytes) == MapKeys(from_slice(bytes)[1][2])

\* C15: object key order is UTF-16 code-unit order.  Of any two keys of an
\* object, the one whose UTF-16 code-unit sequence is lexicographically
\* smaller comes first in the canonical output (U+1F600, encoded D83D DE00,
\* before U+FFFD).
C15_KeyOrderIsUtf16 ==
    (jsonText # None /\ Tag(jsonValue) = "Object") =>
        LET out == KeysInOutput(jsonText[1])
        IN \A i, j \in 1 .. Len(out) :
                i < j <=> SeqLess(encode_utf16(out[i]), encode_utf16(out[j]))

\* what the string section of the specification emits for a character: an
\* escape for the quote, the backslash and U+0000..U+001F, the character
\* itself otherwise
EscapeC0Only(c) ==
    CASE c = 34 -> <<92, 34>>
      [] c = 92 -> <<92, 92>>
      [] c = 8 -> <<92, 98>>
      [] c = 9 -> <<92, 116>>
      [] c = 10 -> <<92, 110>>
      [] c = 12 -> <<92, 102>>
      [] c = 13 -> <<92, 114>>
      [] OTHER -> IF c <= 31 THEN EscapeU(c) ELSE <<c>>

\* C16: string escaping.  In the canonical output of a string a character
\* is escaped only if it is the double quote, the backslash or a C0 control
\* U+0000..U+001F (short forms for U+0008, U+0009, U+000A, U+000C, U+000D,
\* lowercase \u00XX for the others); every other code point, U+007F and
\* above included, is emitted literally.
C16_EscapesOnlyC0 ==
    (jsonText # None /\ Tag(jsonValue) = "String") =>
        from_utf8(jsonText[1])
            = <<34>>
              \o Flatten([i \in 1 .. Len(jsonValue[2]) |-> EscapeC0Only(jsonValue[2][i])])
              \o <<34>>

(* ------------------------------ Merkle root ---------------------------- *)

\* the entries of a set in ascending order of path, for a set in which no
\* two entries have the same path
RECURSIVE AscendingByPath(_)
AscendingByPath(S) ==
    IF S = {} THEN <<>>
    ELSE LET least == CHOOSE e \in S :
                        \A o \in S \ {e} : SeqLess(as_bytes(PathOf(e)), as_bytes(PathOf(o)))
         IN <<least>> \o AscendingByPath(S \ {least})

\* one level up: the last hash doubled when the count is odd, then each
\* adjacent pair combined as H(left || right)
LevelUp(hs) ==
    LET even == IF Len(hs) % 2 = 1 THEN Append(hs, hs[Len(hs)]) ELSE hs
    IN [i \in 1 .. Len(even) \div 2 |-> sha256_hash(<<even[2 * i - 1], even[2 * i]>>)]

\* levels combined until one hash remains, at least once
RECURSIVE TreeTop(_)
TreeTop(hs) == IF Len(LevelUp(hs)) = 1 THEN LevelUp(hs)[1] ELSE TreeTop(LevelUp(hs))

DistinctPaths(es) ==
    \A i, j \in 1 .. Len(es) : i # j => PathOf(es[i]) # PathOf(es[j])

EntrySet(es) == {es[i] : i \in 1 .. Len(es)}

\* the leaf of an entry: the hash of its canonical bytes
LeafOf == [e \in FileEntries |-> sha256_hash(canonicalize(e))]

\* C17: Merkle root.  The root of no entries is the hash of the empty
\* string; the root of one entry is H(leaf || leaf); the root of entries
\* with distinct paths is the top of the tree over the leaves
\* H(canonical bytes of entry) taken in ascending order of path, each level
\* doubling its last hash when its count is odd: it depends on the set of
\* entries, not on their order in the input.
C17_MerkleRoot ==
    /\ fileEntries = <<>> => merkleRoot = hex(sha256_hash(<<>>))
    /\ Len(fileEntries) = 1 =>
            LET leaf == sha256_hash(canonicalize(fileEntries[1]))
            IN merkleRoot = hex(sha256_hash(<<leaf, leaf>>))
    /\ (fileEntries # <<>> /\ DistinctPaths(fileEntries)) =>
            LET sorted == AscendingByPath(EntrySet(fileEntries))
            IN merkleRoot = hex(TreeTop([i \in 1 .. Len(sorted) |-> LeafOf[sorted[i]]]))

\* five entries with distinct paths given in descending order of path: the
\* levels hold 5, 3 and 2 hashes
C17_Witness ==
    /\ Len(fileEntries) = 5 /\ DistinctPaths(fileEntries)
    /\ \A i \in 1 .. 4 : StrLess(PathOf(fileEntries[i + 1]), PathOf(fileEntries[i]))

(* ---- verify-vault and the exit codes of cross_impl ---- *)

\* the last run of the process was verify-vault on the vault
VerifiedVault == exitCode # None /\ argv = <<"cross_impl", "verify-vault", "--vault", "v">>

\* the public keys keys.json registers under key id kid
RegisteredKeys(files, kid) ==
    LET keys == Get(files.keys[1], K_keys)
    IN IF keys = Absent \/ Tag(keys) # "Array" THEN {}
       ELSE {Get(keys[2][i], K_public_key_b64)[2][2] :
                i \in {j \in 1 .. Len(keys[2]) :
                          Get(keys[2][j], K_key_id) = VString(kid)}}

\* both files of the vault are read, every key of keys.json is 32 bytes of
\* Base64, and every line of the log is an event with actor and event_id
WellFormedVault(files) ==
    /\ files.keys # None /\ files.keys[1] # InvalidJson
    /\ LET keys == Get(files.keys[1], K_keys)
       IN keys # Absent =>
            \A i \in 1 .. Len(keys[2]) :
                LET pk == Get(keys[2][i], K_public_key_b64)[2]
                IN pk[1] = "base64" /\ Len(pk[2]) = 1
    /\ files.events # None
    /\ \A i \in 1 .. Len(files.events[1]) :
        LET line == files.events[1][i]
        IN /\ line # InvalidJson
           /\ AsString(Get(line, K_actor)) # None
           /\ AsString(Get(line, K_event_id)) # None

\* the per-actor chain rule: the first event of an actor has a null
\* prev_event_hash, every later one names the actor's previous event_id
ChainRuleHolds(lines) ==
    \A i \in 1 .. Len(lines) :
        LET earlier == {j \in 1 .. (i - 1) :
                            Get(lines[j], K_actor) = Get(lines[i], K_actor)}
            prev == Get(lines[i], K_prev_event_hash)
        IN IF earlier = {} THEN prev = Absent \/ prev = VNull
           ELSE LET last == CHOOSE j \in earlier : \A k \in earlier : k <= j
                IN prev = Get(lines[last], K_event_id)

\* the signature an event carries is one of a key registered under the
\* event's actor_key_id, over the SHA-256 of the canonical event without sig
SignatureVerifies(line, files) ==
    LET sig == AsString(Get(line, K_sig))
        kid == AsString(Get(line, K_actor_key_id))
    IN /\ sig # None /\ kid # None
       /\ sig[1][1] = "base64"
       /\ \E pk \in RegisteredKeys(files, kid[1]) :
            Ed25519Verify(pk, sha256_hash(canonicalize(WithoutEntry(line, K_sig))),
                          sig[1][2])

\* C18: verify-vault exits with 0 exactly when the log of the vault keeps
\* the per-actor chain rule and the signature of every event that carries
\* one verifies against the registered public key, and with 1 otherwise.
C18_VerifyVaultVerdict ==
    (VerifiedVault /\ WellFormedVault(vaultFiles)) =>
        LET lines == vaultFiles.events[1]
            valid == /\ ChainRuleHolds(lines)
                     /\ \A i \in 1 .. Len(lines) :
                            Get(lines[i], K_sig) # Absent
                                => SignatureVerifies(lines[i], vaultFiles)
        IN exitCode = Some(IF valid THEN 0 ELSE 1)

\* the commands of cross_impl and the options each requires
RequiredOptions(cmd) ==
    CASE cmd = "canonical-sha256" -> {"--input-json"}
      [] cmd = "verify-vault" -> {"--vault"}
      [] cmd = "create-vault" -> {"--vault"}
      [] cmd = "sign-event-json" -> {"--private-key-b64", "--event-json"}

Commands == {"canonical-sha256", "verify-vault", "create-vault", "sign-event-json"}

\* no command is given, the command is unknown, or an option the command
\* requires is not given with a value
UsageError(args) ==
    \/ Len(args) < 2
    \/ args[2] \notin Commands
    \/ \E opt \in RequiredOptions(args[2]) :
            ~\E i \in 1 .. (Len(args) - 1) : args[i] = opt

\* C19: the process exits with 0, 1 or 2, and with 2 exactly on a usage
\* error: no command, an unknown command, or a required option missing.
C19_ExitCodes ==
    exitCode # None =>
        /\ exitCode[1] \in {0, 1, 2}
        /\ UsageError(argv) <=> exitCode = Some(2)

(* ------------------------------- C20 ---------------------------------- *)

\* C20: when an OBSERVATION or ASSERTION for key k is applied while
\* canonical[k] holds a different value and the event's confidence reaches
\* the threshold, then afterwards contested[k] has reason
\* conflicts_with_canonical and canonical_value equal to canonical[k].value,
\* local does not contain k, and canonical[k] is what it was.
C20_ConflictWithCanonical ==
    [][ (/\ AppliesOne
         /\ IsFactEvent(call'.events[1], {"OBSERVATION", "ASSERTION"})
         /\ CanonicalRuleFires(reducer, call'.events[1]))
        =>
        (/\ FactKey(call'.events[1]) \in DOMAIN reducer'.state.contested
         /\ reducer'.state.contested[FactKey(call'.events[1])].reason
                = "conflicts_with_canonical"
         /\ reducer'.state.contested[FactKey(call'.events[1])].canonical_value
                = reducer.state.canonical[FactKey(call'.events[1])].value
         /\ FactKey(call'.events[1]) \notin DOMAIN reducer'.state.local
         /\ FactKey(call'.events[1]) \in DOMAIN reducer'.state.canonical
         /\ reducer'.state.canonical[FactKey(call'.events[1])]
                = reducer.state.canonical[FactKey(call'.events[1])]) ]_vars

\* the last event was an observation or assertion of a value other than the
\* canonical one, and mark_contested filed it under conflicts_with_canonical
C20_Witness ==
    /\ AppliedOne
    /\ IsFactEvent(call.events[1], {"OBSERVATION", "ASSERTION"})
    /\ FactKey(call.events[1]) \in DOMAIN reducer.state.contested
    /\ FactKey(call.events[1]) \in DOMAIN reducer.state.canonical
    /\ LET k == FactKey(call.events[1])
           c == reducer.state.contested[k]
       IN /\ c.reason = "conflicts_with_canonical"
          /\ reducer.state.canonical[k].value # FactValue(call.events[1])
          /\ c.canonical_value = reducer.state.canonical[k].value
          /\ reducer.evidence[k][Len(reducer.evidence[k])].event_id
                = EventIdOf(call.events[1])
          /\ k \notin DOMAIN reducer.state.local

(* ------------------------------- C21 ---------------------------------- *)

\* the evidence ledger of key k in reducer r
LedgerOf(r, k) == IF k \in DOMAIN r.evidence THEN r.evidence[k] ELSE <<>>

\* C21: when an OBSERVATION or ASSERTION for key k is applied whose value
\* equals canonical[k].value, canonical and local are what they were (local[k]
\* is not created) and the ledger of k is one record longer.
C21_ConcurringObservationNoOp ==
    [][ (/\ AppliesOne
         /\ IsFactEvent(call'.events[1], {"OBSERVATION", "ASSERTION"})
         /\ FactKey(call'.events[1]) \in DOMAIN reducer.state.canonical
         /\ reducer.state.canonical[FactKey(call'.events[1])].value
                = FactValue(call'.events[1]))
        =>
        (/\ reducer'.state.canonical = reducer.state.canonical
         /\ reducer'.state.local = reducer.state.local
         /\ Len(LedgerOf(reducer', FactKey(call'.events[1])))
                = Len(LedgerOf(reducer, FactKey(call'.events[1]))) + 1) ]_vars

(* ------------------------------- C22 ---------------------------------- *)

\* every OBSERVATION and ASSERTION the reducer has recorded had a confidence
\* strictly below the threshold
AllLowConfidence(r) ==
    \A k \in DOMAIN r.evidence :
        \A i \in DOMAIN r.evidence[k] :
            r.evidence[k][i].confidence < ThresholdOf(r)

\* C22: as long as every OBSERVATION and ASSERTION applied so far had a
\* confidence strictly below the threshold, contested is empty, and such an
\* event whose value differs from local[k] leaves local[k] holding the
\* event's value, confidence and id.
C22_LowConfidenceNeverContests ==
    /\ [](AllLowConfidence(reducer) => DOMAIN reducer.state.contested = {})
    /\ [][ (/\ AppliesOne
            /\ IsFactEvent(call'.events[1], {"OBSERVATION", "ASSERTION"})
            /\ AllLowConfidence(reducer')
            /\ FactKey(call'.events[1]) \in DOMAIN reducer.state.local
            /\ reducer.state.local[FactKey(call'.events[1])].value
                   # FactValue(call'.events[1]))
           =>
           (/\ FactKey(call'.events[1]) \in DOMAIN reducer'.state.local
            /\ reducer'.state.local[FactKey(call'.events[1])].value
                   = FactValue(call'.events[1])
            /\ reducer'.state.local[FactKey(call'.events[1])].confidence
                   = FactConfidence(call'.events[1])
            /\ reducer'.state.local[FactKey(call'.events[1])].provenance
                   = EventIdOf(call'.events[1])) ]_vars

\* two low-confidence observations of different values were applied to a
\* key, and local holds the second
C22_Witness ==
    /\ AppliedOne
    /\ IsFactEvent(call.events[1], {"OBSERVATION", "ASSERTION"})
    /\ AllLowConfidence(reducer)
    /\ LET k == FactKey(call.events[1])
           ledger == LedgerOf(reducer, k)
       IN /\ Len(ledger) >= 2
          /\ ledger[Len(ledger) - 1].value # ledger[Len(ledger)].value
          /\ ledger[Len(ledger)].event_id = EventIdOf(call.events[1])
          /\ k \in DOMAIN reducer.state.local
          /\ reducer.state.local[k].value = FactValue(call.events[1])
          /\ reducer.state.local[k].provenance = EventIdOf(call.events[1])
          /\ DOMAIN reducer.state.contested = {}

(* ------------------------------- C23 ---------------------------------- *)

\* the entry handle_observation writes into local for event e, given the
\* ledger of the event's key after the event
LocalEntryOf(e, ledger) ==
    [value |-> FactValue(e),
     confidence |-> FactConfidence(e),
     provenance |-> EventIdOf(e),
     actor |-> EventActorOf(e),
     timestamp |-> FactTimestamp(e),
     evidence_count |-> Len(ledger)]

\* C23: when an OBSERVATION or ASSERTION for key k is applied whose value is
\* that of local[k], then local[k] is what it was if the event's confidence
\* is at most the stored one; local[k] changes only if the event's
\* confidence is strictly greater, and then, unless the
\* conflicts-with-canonical rule fires, it becomes the event's entry.
C23_SameValueKeepsStrongest ==
    [][ (/\ AppliesOne
         /\ IsFactEvent(call'.events[1], {"OBSERVATION", "ASSERTION"})
         /\ FactKey(call'.events[1]) \in DOMAIN reducer.state.local
         /\ reducer.state.local[FactKey(call'.events[1])].value
                = FactValue(call'.events[1]))
        =>
        LET e == call'.events[1]
            k == FactKey(e)
            kept == /\ k \in DOMAIN reducer'.state.local
                    /\ reducer'.state.local[k] = reducer.state.local[k]
            greater == FactConfidence(e) > reducer.state.local[k].confidence
        IN /\ ~greater => kept
           /\ ~kept => greater
           /\ (greater /\ ~CanonicalRuleFires(reducer, e)) =>
                /\ k \in DOMAIN reducer'.state.local
                /\ reducer'.state.local[k] = LocalEntryOf(e, LedgerOf(reducer', k)) ]_vars

\* the last event observed the value local already held, with a confidence
\* not above the stored one: local still holds the entry of the earlier event
C23_Witness ==
    /\ AppliedOne
    /\ IsFactEvent(call.events[1], {"OBSERVATION", "ASSERTION"})
    /\ LET k == FactKey(call.events[1])
           ledger == LedgerOf(reducer, k)
       IN /\ Len(ledger) >= 2
          /\ ledger[Len(ledger)].event_id = EventIdOf(call.events[1])
          /\ k \in DOMAIN reducer.state.local
          /\ reducer.state.local[k].value = FactValue(call.events[1])
          /\ reducer.state.local[k].provenance = ledger[Len(ledger) - 1].event_id
          /\ FactConfidence(call.events[1]) <= reducer.state.local[k].confidence

(* ------------------------------- C24 ---------------------------------- *)

\* C24: in every reachable state no key is present in both local and
\* contested.
C24_LocalContestedDisjoint ==
    DOMAIN reducer.state.local \cap DOMAIN reducer.state.contested = {}

(* ------------------------------- C25 ---------------------------------- *)

\* the archive list of key k in reducer r
ArchiveOf(r, k) ==
    IF k \in DOMAIN r.state.archived THEN r.state.archived[k] ELSE <<>>

\* the JSON object entry with the member name |-> v inserted
WithMember(entry, name, v) ==
    [f \in DOMAIN entry \cup {name} |-> IF f = name THEN v ELSE entry[f]]

\* C25: applying an ATTESTATION for key k appends to archived[k] exactly one
\* entry, the previous canonical[k] with superseded_by set to the event's
\* id, if canonical[k] existed, and leaves archived unchanged otherwise; the
\* archive lists of other keys are what they were.
C25_AttestationArchives ==
    [][ (/\ AppliesOne
         /\ IsFactEvent(call'.events[1], {"ATTESTATION"}))
        =>
        LET e == call'.events[1]
            k == FactKey(e)
        IN IF k \in DOMAIN reducer.state.canonical
           THEN /\ DOMAIN reducer'.state.archived
                      = DOMAIN reducer.state.archived \cup {k}
                /\ reducer'.state.archived[k]
                      = Append(ArchiveOf(reducer, k),
                               WithMember(reducer.state.canonical[k],
                                          "superseded_by", EventIdOf(e)))
                /\ \A j \in DOMAIN reducer.state.archived \ {k} :
                      reducer'.state.archived[j] = reducer.state.archived[j]
           ELSE reducer'.state.archived = reducer.state.archived ]_vars

\* the last event was an attestation that superseded an earlier one: the
\* archive of its key ends with the earlier entry, superseded by this event
C25_Witness ==
    /\ AppliedOne
    /\ IsFactEvent(call.events[1], {"ATTESTATION"})
    /\ LET k == FactKey(call.events[1])
           arch == ArchiveOf(reducer, k)
       IN /\ arch # <<>>
          /\ arch[Len(arch)].superseded_by = EventIdOf(call.events[1])
          /\ arch[Len(arch)].attestation_event_id # EventIdOf(call.events[1])
          /\ k \in DOMAIN reducer.state.canonical
          /\ reducer.state.canonical[k].attestation_event_id
                = EventIdOf(call.events[1])

(* ------------------------------- C26 ---------------------------------- *)

\* C26: applying a RETRACTION for key k while canonical[k] does not exist
\* leaves canonical and archived unchanged, and removes k, and nothing else,
\* from local and from contested.
C26_RetractionWithoutCanonical ==
    [][ (/\ AppliesOne
         /\ IsFactEvent(call'.events[1], {"RETRACTION"})
         /\ FactKey(call'.events[1]) \notin DOMAIN reducer.state.canonical)
        =>
        (/\ reducer'.state.canonical = reducer.state.canonical
         /\ reducer'.state.archived = reducer.state.archived
         /\ reducer'.state.local
                = MapRemove(reducer.state.local, FactKey(call'.events[1]))
         /\ reducer'.state.contested
                = MapRemove(reducer.state.contested, FactKey(call'.events[1]))) ]_vars

\* an observation of a key and then its retraction were applied: the key
\* was never canonical, and the retraction took it out of local
C26_Witness ==
    /\ AppliedOne
    /\ fed = 2
    /\ reducer.state.metadata.event_count = 2
    /\ IsFactEvent(call.events[1], {"RETRACTION"})
    /\ LET k == FactKey(call.events[1])
       IN /\ Len(LedgerOf(reducer, k)) = 1
          /\ k \notin DOMAIN reducer.state.canonical
          /\ k \notin DOMAIN reducer.state.archived
          /\ k \notin DOMAIN reducer.state.local
          /\ k \notin DOMAIN reducer.state.contested

(* ------------------------------- C27 ---------------------------------- *)

\* the conflicts-with-local rule fires for event e in reducer r
LocalRuleFires(r, e) ==
    /\ ~CanonicalRuleFires(r, e)
    /\ FactKey(e) \in DOMAIN r.state.local
    /\ r.state.local[FactKey(e)].value # FactValue(e)
    /\ Max(r.state.local[FactKey(e)].confidence, FactConfidence(e)) >= ThresholdOf(r)

\* the places <<value key, index>> of the groups of a contested entry
GroupPlaces(groups) ==
    UNION {{<<vk, j>> : j \in DOMAIN groups[vk]} : vk \in DOMAIN groups}

\* C27: when the application of an OBSERVATION or ASSERTION for key k calls
\* mark_contested, then in contested[k] total_evidence_count is the length
\* of the ledger of k, the event's record included; evidence_by_value has
\* one group for the canonical JSON of each value in the ledger, every
\* record of the ledger is in the group of its value and in exactly one
\* place, and the groups have as many places as the ledger has records;
\* canonical_value is canonical[k].value, or null without canonical[k].
C27_ContestedEntryContent ==
    [][ (/\ AppliesOne
         /\ IsFactEvent(call'.events[1], {"OBSERVATION", "ASSERTION"})
         /\ \/ CanonicalRuleFires(reducer, call'.events[1])
            \/ LocalRuleFires(reducer, call'.events[1]))
        =>
        LET e == call'.events[1]
            k == FactKey(e)
            ledger == LedgerOf(reducer', k)
            c == reducer'.state.contested[k]
            groups == c.evidence_by_value
        IN /\ k \in DOMAIN reducer'.state.contested
           /\ Len(ledger) = Len(LedgerOf(reducer, k)) + 1
           /\ ledger[Len(ledger)].event_id = EventIdOf(e)
           /\ c.total_evidence_count = Len(ledger)
           /\ DOMAIN groups
                = {canonical_to_string(ledger[i].value) : i \in DOMAIN ledger}
           /\ \A i \in DOMAIN ledger :
                /\ Cardinality({pl \in GroupPlaces(groups) :
                                    groups[pl[1]][pl[2]] = EvidenceJson(ledger[i])}) = 1
                /\ \E j \in DOMAIN groups[canonical_to_string(ledger[i].value)] :
                        groups[canonical_to_string(ledger[i].value)][j]
                            = EvidenceJson(ledger[i])
           /\ Cardinality(GroupPlaces(groups)) = Len(ledger)
           /\ c.canonical_value
                = IF k \in DOMAIN reducer.state.canonical
                  THEN reducer.state.canonical[k].value
                  ELSE JNull ]_vars

\* the last event contested a key whose ledger holds three records of two
\* values: one group has two records
C27_Witness ==
    /\ AppliedOne
    /\ IsFactEvent(call.events[1], {"OBSERVATION", "ASSERTION"})
    /\ FactKey(call.events[1]) \in DOMAIN reducer.state.contested
    /\ LET k == FactKey(call.events[1])
           c == reducer.state.contested[k]
       IN /\ c.total_evidence_count = 3
          /\ Len(LedgerOf(reducer, k)) = 3
          /\ LedgerOf(reducer, k)[3].event_id = EventIdOf(call.events[1])
          /\ Cardinality(DOMAIN c.evidence_by_value) = 2
          /\ \E vk \in DOMAIN c.evidence_by_value : Len(c.evidence_by_value[vk]) = 2

(* ------------------------------- C28 ---------------------------------- *)

\* event e is kept out of local by the same-value rule: local holds its
\* value with at least its confidence
WeakerSameValue(r, e) ==
    /\ FactKey(e) \in DOMAIN r.state.local
    /\ r.state.local[FactKey(e)].value = FactValue(e)
    /\ FactConfidence(e) <= r.state.local[FactKey(e)].confidence

\* C28: when an OBSERVATION or ASSERTION with subject s and predicate p
\* writes local["s:p"], the evidence_count of the entry is the number of
\* records of the ledger under the composite key "s:p", the record of the
\* event itself included, not the number of records under s alone.
C28_EvidenceCountByCompositeKey ==
    [][ (/\ AppliesOne
         /\ IsFactEvent(call'.events[1], {"OBSERVATION", "ASSERTION"})
         /\ ~CanonicalRuleFires(reducer, call'.events[1])
         /\ ~LocalRuleFires(reducer, call'.events[1])
         /\ ~WeakerSameValue(reducer, call'.events[1]))
        =>
        LET e == call'.events[1]
            k == FactKey(e)
        IN /\ k \in DOMAIN reducer'.state.local
           /\ reducer'.state.local[k].provenance = EventIdOf(e)
           /\ reducer'.state.local[k].evidence_count = Len(LedgerOf(reducer', k))
           /\ Len(LedgerOf(reducer', k)) = Len(LedgerOf(reducer, k)) + 1 ]_vars

\* the last event wrote local[k] as the second record of the ledger of k
C28_Witness ==
    /\ AppliedOne
    /\ IsFactEvent(call.events[1], {"OBSERVATION", "ASSERTION"})
    /\ FactKey(call.events[1]) \in DOMAIN reducer.state.local
    /\ LET k == FactKey(call.events[1])
       IN /\ reducer.state.local[k].provenance = EventIdOf(call.events[1])
          /\ reducer.state.local[k].evidence_count = 2
          /\ Len(LedgerOf(reducer, k)) = 2
          /\ LedgerOf(reducer, k)[2].event_id = EventIdOf(call.events[1])

(* ------------------------------- C29 ---------------------------------- *)

KnowledgeTypes == {"OBSERVATION", "ASSERTION", "ATTESTATION", "RETRACTION"}

\* an event of a knowledge type whose payload is absent, is not an object,
\* or lacks a string subject or a string predicate
MalformedKnowledgeEvent(e) ==
    /\ IsObj(e)
    /\ IsStr(e[2].type)
    /\ e[2].type[2] \in KnowledgeTypes
    /\ \/ ~IsObj(e[2].payload)
       \/ ~IsStr(e[2].payload[2].subject)
       \/ ~IsStr(e[2].payload[2].predicate)

\* C29: applying an OBSERVATION, ASSERTION, ATTESTATION or RETRACTION whose
\* payload is absent, is not an object, or lacks a string subject or a
\* string predicate leaves canonical, local, contested, archived and the
\* evidence ledger as they were, and the call raises no error: the event is
\* counted as applied.
C29_MalformedEventsIgnored ==
    [][ (AppliesOne /\ MalformedKnowledgeEvent(call'.events[1]))
        =>
        (/\ reducer'.state.canonical = reducer.state.canonical
         /\ reducer'.state.local = reducer.state.local
         /\ reducer'.state.contested = reducer.state.contested
         /\ reducer'.state.archived = reducer.state.archived
         /\ reducer'.evidence = reducer.evidence
         /\ reducer'.state.metadata.event_count
                = reducer.state.metadata.event_count + 1) ]_vars

\* an OBSERVATION without a subject was applied to a reducer that holds a
\* local entry and its evidence
C29_Witness ==
    /\ AppliedOne
    /\ MalformedKnowledgeEvent(call.events[1])
    /\ call.events[1][2].type[2] = "OBSERVATION"
    /\ IsObj(call.events[1][2].payload)
    /\ ~IsStr(call.events[1][2].payload[2].subject)
    /\ reducer.state.metadata.event_count = 2
    /\ DOMAIN reducer.state.local # {}
    /\ DOMAIN reducer.evidence = DOMAIN reducer.state.local

(* ------------------------------- C30 ---------------------------------- *)

\* the event holds a string under "event_id", or under "id" when it has no
\* "event_id"
CarriesEventId(e) ==
    \/ IsStr(e[2].event_id)
    \/ e[2].event_id = Absent /\ IsStr(e[2].id)

\* C30: after applying an event that carries an event id,
\* metadata.last_event_id is that id; applying an event that carries none
\* advances event_count and leaves last_event_id at the id of the last event
\* that carried one.
C30_LastEventIdTracksRealIds ==
    [][ (AppliesOne /\ IsObj(call'.events[1]))
        =>
        (/\ reducer'.state.metadata.event_count
                = reducer.state.metadata.event_count + 1
         /\ IF CarriesEventId(call'.events[1])
            THEN reducer'.state.metadata.last_event_id
                    = Some(EventIdOf(call'.events[1]))
            ELSE reducer'.state.metadata.last_event_id
                    = reducer.state.metadata.last_event_id) ]_vars

(* ------------------------------- C31 ---------------------------------- *)

HandledTypes ==
    {"OBSERVATION", "ASSERTION", "ATTESTATION", "RETRACTION", "REDUCER_EPOCH"}

\* the type the reducer dispatches on: "" when the event has no string type
TypeOf(e) == IF IsStr(e[2].type) THEN e[2].type[2] ELSE ""

\* nothing but last_event_id, event_count and state_hash differs between
\* reducers r and rNext, and those three are the ones of the applied event e
OnlyMetadataAdvanced(r, rNext, e) ==
    /\ rNext.state.canonical = r.state.canonical
    /\ rNext.state.local = r.state.local
    /\ rNext.state.contested = r.state.contested
    /\ rNext.state.archived = r.state.archived
    /\ rNext.evidence = r.evidence
    /\ rNext.state.metadata.current_epoch = r.state.metadata.current_epoch
    /\ rNext.state.metadata.reducer = r.state.metadata.reducer
    /\ rNext.state.metadata.event_count = r.state.metadata.event_count + 1
    /\ rNext.state.metadata.last_event_id = Some(EventIdOf(e))
    /\ rNext.state.metadata.state_hash # r.state.metadata.state_hash

\* C31 as stated: every event whose type is a string other than the five
\* handled types is recorded in ignored_types, and changes nothing but
\* last_event_id, event_count and state_hash.
C31_UnknownTypesRecorded ==
    [][ (/\ AppliesOne
         /\ IsObj(call'.events[1])
         /\ IsStr(call'.events[1][2].type)
         /\ TypeOf(call'.events[1]) \notin HandledTypes)
        =>
        (/\ TypeOf(call'.events[1]) \in reducer'.ignored_types
         /\ OnlyMetadataAdvanced(reducer, reducer', call'.events[1])) ]_vars

\* C31, amended: an event whose type is none of the five handled types
\* changes none of canonical, local, contested, archived, current_epoch and
\* the evidence ledger; only last_event_id, event_count and state_hash
\* change. Its type is added to ignored_types when it is a non-empty
\* string; an event whose type is missing, not a string or the empty string
\* leaves ignored_types as it was.
C31_UnknownTypesInert ==
    [][ (/\ AppliesOne
         /\ IsObj(call'.events[1])
         /\ TypeOf(call'.events[1]) \notin HandledTypes)
        =>
        (/\ OnlyMetadataAdvanced(reducer, reducer', call'.events[1])
         /\ reducer'.ignored_types
              = IF TypeOf(call'.events[1]) # ""
                THEN reducer.ignored_types \cup {TypeOf(call'.events[1])}
                ELSE reducer.ignored_types) ]_vars

\* a CUSTOM event was applied to a reducer holding a local entry, and is on
\* record
C31_Witness ==
    /\ AppliedOne
    /\ IsObj(call.events[1])
    /\ TypeOf(call.events[1]) = "CUSTOM"
    /\ reducer.ignored_types = {"CUSTOM"}
    /\ reducer.state.metadata.event_count = 2
    /\ reducer.state.metadata.last_event_id = Some("evt_2")
    /\ DOMAIN reducer.state.local # {}

(* ------------------------------- C32 ---------------------------------- *)

\* member `name` of payload object p as it is stored: null when missing
StoredMember(p, name) == IF p[name] = Absent THEN JNull ELSE p[name]

\* C32: applying a REDUCER_EPOCH event with an object payload sets
\* metadata.current_epoch to {epoch_id, reducer_hash,
\* effective_from_event_id, ontology_versions} of that payload, whatever
\* epoch was set before, with the event's id as effective_from_event_id when
\* the payload holds no string for it; canonical, local, contested,
\* archived and the evidence ledger are unchanged.
C32_ReducerEpochOverwritesEpochOnly ==
    [][ (/\ AppliesOne
         /\ IsObj(call'.events[1])
         /\ TypeOf(call'.events[1]) = "REDUCER_EPOCH"
         /\ IsObj(call'.events[1][2].payload))
        =>
        LET e == call'.events[1]
            p == e[2].payload[2]
        IN /\ reducer'.state.metadata.current_epoch
                = Some([epoch_id |-> StoredMember(p, "epoch_id"),
                        reducer_hash |-> StoredMember(p, "reducer_hash"),
                        effective_from_event_id |->
                            IF IsStr(p.effective_from_event_id)
                            THEN p.effective_from_event_id[2]
                            ELSE EventIdOf(e),
                        ontology_versions |-> StoredMember(p, "ontology_versions")])
           /\ reducer'.state.canonical = reducer.state.canonical
           /\ reducer'.state.local = reducer.state.local
           /\ reducer'.state.contested = reducer.state.contested
           /\ reducer'.state.archived = reducer.state.archived
           /\ reducer'.evidence = reducer.evidence ]_vars

\* the third event is an epoch event without effective_from_event_id,
\* applied to a reducer that holds a local entry
C32_Witness ==
    /\ AppliedOne
    /\ IsObj(call.events[1])
    /\ TypeOf(call.events[1]) = "REDUCER_EPOCH"
    /\ reducer.state.metadata.event_count = 3
    /\ DOMAIN reducer.state.local # {}
    /\ reducer.state.metadata.current_epoch
          = Some([epoch_id |-> JStr("ep1"),
                  reducer_hash |-> JStr("h1"),
                  effective_from_event_id |-> "evt_3",
                  ontology_versions |-> JNull])

(* ------------------------------- C33 ---------------------------------- *)

\* the part of the log the second instance has not consumed, cut after
\* position i of the log
PendingUpTo(i) == SubSeq(log, pos2 + 1, i)

PendingFrom(i) == SubSeq(log, i + 1, Len(log))

\* C33: the first instance took every event of the log through apply_event,
\* the second took a prefix of it in batches. Wherever the rest of the log
\* is cut in two, feeding the second instance the two parts through two
\* apply_events calls (either part may be empty, so one call for the whole
\* rest is included) leaves it equal to the first instance in canonical,
\* local, contested, archived, metadata with state_hash, evidence ledger
\* and ignored types; and apply_events with the empty list changes neither
\* instance.
C33_BatchingTransparent ==
    /\ apply_events(r1, <<>>) = r1
    /\ apply_events(r2, <<>>) = r2
    /\ \A i \in pos2 .. Len(log) :
          apply_events(apply_events(r2, PendingUpTo(i)), PendingFrom(i)) = r1

\* three events are in the log, one of them unconsumed by the second
\* instance, which already took a batch of two; the first instance holds a
\* contested key and evidence
C33_Witness ==
    /\ Len(log) = 3
    /\ pos2 = 2
    /\ r2.state.metadata.event_count = 2
    /\ r1.state.metadata.event_count = 3
    /\ DOMAIN r1.state.contested # {}
    /\ DOMAIN r1.evidence # {}
    /\ r1 # r2

(* ------------------------------- C34 ---------------------------------- *)

\* C34: in every reachable state and for every contested key k,
\* contested[k].canonical_value is canonical[k].value when canonical holds
\* k and null otherwise, and a contested entry with reason
\* conflicts_with_canonical has its key in canonical.
C34_ContestedConsistentWithCanonical ==
    \A k \in DOMAIN reducer.state.contested :
        /\ reducer.state.contested[k].canonical_value
              = IF k \in DOMAIN reducer.state.canonical
                THEN reducer.state.canonical[k].value
                ELSE JNull
        /\ reducer.state.contested[k].reason = "conflicts_with_canonical"
              => k \in DOMAIN reducer.state.canonical

\* a key is contested against its canonical value after three events
C34_Witness ==
    /\ fed = 3
    /\ \E k \in DOMAIN reducer.state.contested :
          /\ reducer.state.contested[k].reason = "conflicts_with_canonical"
          /\ k \in DOMAIN reducer.state.canonical
          /\ reducer.state.contested[k].canonical_value
                = reducer.state.canonical[k].value
          /\ reducer.state.contested[k].canonical_value # JNull

(* ------------------------------- C35 ---------------------------------- *)

\* some event of the list is of a type in `types` and names key k
SomeEventNames(events, types, k) ==
    \E i \in DOMAIN events :
        IsFactEvent(events[i], types) /\ FactKey(events[i]) = k

\* C35: in every call, single or batch, an entry canonical[k] is created or
\* changed only if an ATTESTATION naming the subject and predicate of k is
\* among the events applied, and removed only if a RETRACTION naming them
\* is; hence calls that apply only OBSERVATION, ASSERTION (whatever
\* their confidence and namespace), REDUCER_EPOCH, unknown or malformed
\* events leave canonical as it was.
C35_OnlyAttestationPromotes ==
    [][ /\ \A k \in DOMAIN reducer'.state.canonical :
              (\/ k \notin DOMAIN reducer.state.canonical
               \/ reducer'.state.canonical[k] # reducer.state.canonical[k])
              => SomeEventNames(call'.events, {"ATTESTATION"}, k)
        /\ \A k \in DOMAIN reducer.state.canonical :
              k \notin DOMAIN reducer'.state.canonical
              => SomeEventNames(call'.events, {"RETRACTION"}, k)
        /\ (\A i \in DOMAIN call'.events :
                ~IsFactEvent(call'.events[i], {"ATTESTATION", "RETRACTION"}))
              => reducer'.state.canonical = reducer.state.canonical ]_vars

\* an OBSERVATION in namespace "CANONICAL" was applied to a reducer whose
\* canonical entry for the same key still is the one attested before
C35_Witness ==
    /\ AppliedOne
    /\ IsFactEvent(call.events[1], {"OBSERVATION"})
    /\ call.events[1][2].namespace = JStr("CANONICAL")
    /\ reducer.state.metadata.event_count = 2
    /\ FactKey(call.events[1]) \in DOMAIN reducer.state.canonical
    /\ reducer.state.canonical[FactKey(call.events[1])].attestation_event_id = "evt_1"
    /\ Len(LedgerOf(reducer, FactKey(call.events[1]))) = 1

(* ------------------------------- C36 ---------------------------------- *)

\* the (subject, predicate) pairs the events fed name
FactPairs == {<<"a", "c">>, <<"a:b", "c">>, <<"a", "b:c">>}

FactPair(e) == <<e[2].payload[2].subject[2], e[2].payload[2].predicate[2]>>

\* what reducer r holds for the pair: its entries of the four maps and of
\* the evidence ledger
EntriesOf(r, pair) ==
    LET k == pair[1] \o ":" \o pair[2]
        At(map) == IF k \in DOMAIN map THEN <<map[k]>> ELSE <<>>
    IN <<At(r.state.canonical), At(r.state.local), At(r.state.contested),
         At(r.state.archived), At(r.evidence)>>

\* C36: applying an OBSERVATION, ASSERTION, ATTESTATION or RETRACTION whose
\* payload names the pair (s, p) leaves what the reducer holds for every
\* other pair (s', p') as it was, in canonical, local, contested, archived
\* and the evidence ledger, also for strings that contain ':'.
C36_FactsIsolatedPerPair ==
    [][ (AppliesOne /\ IsFactEvent(call'.events[1], KnowledgeTypes))
        =>
        \A pair \in FactPairs :
            pair # FactPair(call'.events[1])
            => EntriesOf(reducer', pair) = EntriesOf(reducer, pair) ]_vars

(* ------------------------------- C37 ---------------------------------- *)

IsPrefix(s, t) == Len(s) <= Len(t) /\ SubSeq(t, 1, Len(s)) = s

\* 1 when event e is an ATTESTATION or RETRACTION for key k applied while
\* reducer r holds canonical[k], else 0
ArchivingEvents(r, e, k) ==
    IF /\ IsFactEvent(e, {"ATTESTATION", "RETRACTION"})
       /\ FactKey(e) = k
       /\ k \in DOMAIN r.state.canonical
    THEN 1 ELSE 0

\* C37: no call, single or batch, removes a key from archived, and the list
\* archived[k] it leaves starts with the list it found; applying one event
\* lengthens archived[k] by one when the event is an ATTESTATION or
\* RETRACTION for k and canonical[k] exists, and by nothing otherwise, so
\* that the length of archived[k] is the number of such events applied.
C37_ArchiveAppendOnly ==
    [][ /\ \A k \in DOMAIN reducer.state.archived :
              /\ k \in DOMAIN reducer'.state.archived
              /\ IsPrefix(reducer.state.archived[k], reducer'.state.archived[k])
        /\ AppliesOne
              => \A k \in DOMAIN reducer'.state.archived
                          \cup DOMAIN reducer.state.canonical :
                    Len(ArchiveOf(reducer', k))
                      = Len(ArchiveOf(reducer, k))
                        + ArchivingEvents(reducer, call'.events[1], k) ]_vars

\* two attestations and a retraction of one key were applied: its archive
\* holds the first attestation's entry, then the second's
C37_Witness ==
    /\ AppliedOne
    /\ IsFactEvent(call.events[1], {"RETRACTION"})
    /\ reducer.state.metadata.event_count = 3
    /\ LET k == FactKey(call.events[1])
       IN /\ Len(ArchiveOf(reducer, k)) = 2
          /\ ArchiveOf(reducer, k)[1].attestation_event_id = "evt_1"
          /\ ArchiveOf(reducer, k)[1].superseded_by = "evt_2"
          /\ ArchiveOf(reducer, k)[2].attestation_event_id = "evt_2"
          /\ ArchiveOf(reducer, k)[2].superseded_by = "evt_3"

(* ------------------------------- C38 ---------------------------------- *)

\* 1 when event e is an OBSERVATION or ASSERTION with string subject and
\* predicate for key k, else 0
EvidenceEvents(e, k) ==
    IF IsFactEvent(e, {"OBSERVATION", "ASSERTION"}) /\ FactKey(e) = k
    THEN 1 ELSE 0

\* the counts stored in local and contested do not exceed the ledger
CountsWithinLedger ==
    /\ \A k \in DOMAIN reducer.state.local :
          /\ 1 <= reducer.state.local[k].evidence_count
          /\ reducer.state.local[k].evidence_count <= Len(LedgerOf(reducer, k))
    /\ \A k \in DOMAIN reducer.state.contested :
          reducer.state.contested[k].total_evidence_count
              <= Len(LedgerOf(reducer, k))

\* C38: no call, single or batch, removes a key from the evidence ledger,
\* and the list it leaves for a key starts with the list it found; applying
\* one event lengthens the ledger of k by one record when the event is an
\* OBSERVATION or ASSERTION with string subject and predicate for k,
\* whatever the conflict rules decide, and by nothing otherwise; and in
\* every reachable state 1 <= local[k].evidence_count <= len(ledger[k]) and
\* contested[k].total_evidence_count <= len(ledger[k]).
C38_LedgerAppendOnly ==
    /\ []CountsWithinLedger
    /\ [][ /\ \A k \in DOMAIN reducer.evidence :
                 /\ k \in DOMAIN reducer'.evidence
                 /\ IsPrefix(reducer.evidence[k], reducer'.evidence[k])
           /\ AppliesOne
                 => \A k \in DOMAIN reducer'.evidence :
                       Len(LedgerOf(reducer', k))
                         = Len(LedgerOf(reducer, k))
                           + EvidenceEvents(call'.events[1], k) ]_vars

\* a key was observed twice and then retracted: its two records are still
\* in the ledger
C38_Witness ==
    /\ AppliedOne
    /\ IsFactEvent(call.events[1], {"RETRACTION"})
    /\ reducer.state.metadata.event_count = 3
    /\ LET k == FactKey(call.events[1])
       IN /\ Len(LedgerOf(reducer, k)) = 2
          /\ LedgerOf(reducer, k)[1].event_id = "evt_1"
          /\ LedgerOf(reducer, k)[2].event_id = "evt_2"
          /\ k \notin DOMAIN reducer.state.local
          /\ k \notin DOMAIN reducer.state.contested

(* ------------------------------- C39 ---------------------------------- *)

\* C39: two reducers whose canonical, local, contested, archived and
\* metadata were equal, and which have since been fed the same events (the
\* events of log), have the same state_hash, whatever their evidence
\* ledgers and ignored types were.
C39_VisibleStateDeterminesFuture ==
    log # <<>> => r1.state.metadata.state_hash = r2.state.metadata.state_hash

(* ------------------------------- C40 ---------------------------------- *)

DistinctEventIds(events) ==
    \A i, j \in DOMAIN events : i # j => events[i].event_id # events[j].event_id

\* C40: when verify_causal_chain accepts a sequence whose event_ids are
\* pairwise distinct, no two events of one actor carry the same
\* prev_event_hash, every actor with an event in the sequence has exactly
\* one genesis event (prev_event_hash absent), and verify_causal_chain
\* accepts every prefix of the sequence.
C40_NoForksAccepted ==
    (chainResult = ChainOk /\ DistinctEventIds(chain))
    =>
    /\ \A i, j \in DOMAIN chain :
          (i # j /\ chain[i].actor = chain[j].actor)
          => chain[i].prev_event_hash # chain[j].prev_event_hash
    /\ \A i \in DOMAIN chain :
          Cardinality({j \in DOMAIN chain :
                          /\ chain[j].actor = chain[i].actor
                          /\ chain[j].prev_event_hash = None}) = 1
    /\ \A n \in 0 .. Len(chain) :
          verify_causal_chain(SubSeq(chain, 1, n)) = ChainOk

\* an accepted sequence of three events with distinct ids: a chain of two
\* events of one actor around the genesis of the other
C40_Witness ==
    /\ chainResult = ChainOk
    /\ Len(chain) = 3
    /\ DistinctEventIds(chain)
    /\ chain[1].actor = chain[3].actor
    /\ chain[2].actor # chain[1].actor
    /\ chain[3].prev_event_hash = Some(chain[1].event_id)

====
